---- MODULE Spec2Model ----
(***************************************************************************)
(* Streaming service of SAM-Project: StreamManager (stream_manager.py),    *)
(* RTSPReader (rtsp_reader.py) and FrameBus (frame_bus.py), run by one     *)
(* asyncio event loop.  A step of the model is what one coroutine does     *)
(* between two suspension points (an await that really suspends).          *)
(***************************************************************************)
EXTENDS Integers, Sequences, FiniteSets, TLC

\* ------------------------------------------------------------- bounds
\* the manager with its control calls (Spec)
MgrInst == 2            \* readers (each with its capture task) alive at the same time
MgrTotal == 2           \* frames all capture loops publish in a run
MgrCalls == 1           \* control calls suspended at the same time
MgrFrames == 1          \* successful reads of one capture loop
MgrOpens == 1           \* times the source of one reader opens
MgrReconnect == 1       \* RTSPReader(max_reconnect_attempts = ...)
\* one capture loop with its reader (SpecReader)
RdFrames == 4
RdOpens == 2
RdReconnect == 2
\* the frame bus on its own (SpecBus)
SinkFrames == 2          \* successful reads of one capture loop, runs that watch the sink
SinkTotal == 3           \* frames all capture loops publish in such a run
ShutCalls == 2           \* control calls suspended at a time in a run with StreamManager.stop
BlockedTotal == 1        \* frames all capture loops publish in a run of SpecBlocked
TickGap == 100           \* milliseconds between two regular ticks of the FPS counter
MaxTicks == 10           \* calls of FPSCounter.tick in a run
MaxClock == 1200         \* the clock of such a run stops here (milliseconds)

MaxBus == 3             \* queues (each with its task) the bus creates in a run
StopPubs == 3            \* publish calls of the bus' caller in a run with FrameBus.stop
MaxPub == 8             \* publish calls of the bus' caller
MaxCreated == 3         \* create_session calls of a run of the SessionManager

\* ------------------------------------------------------------- constants
max_queue_size == 2

\* FPSCounter.__init__: window_seconds = 1.0, in milliseconds
window_ms == 1000

Sessions == {"s1", "s2"}
Insts == 1..MgrInst
BusIds == 1..MaxBus

\* camera_config dictionaries the control plane sends
CfgWebcam == [camera_type |-> "webcam", url |-> "none"]
CfgRtsp == [camera_type |-> "rtsp", url |-> "u1"]
CfgRtspNoUrl == [camera_type |-> "rtsp", url |-> "none"]
CfgUnsupported == [camera_type |-> "file", url |-> "u1"]
Configs == {CfgWebcam, CfgRtsp, CfgRtspNoUrl, CfgUnsupported}

VARIABLES
    is_running,             \* StreamManager.is_running
    streams,                \* StreamManager.streams: session -> reader (0: no key)
    stream_tasks,           \* StreamManager.stream_tasks: session -> task (0: no key)
    total_frames_processed, \* StreamManager.total_frames_processed
    rd,                     \* the RTSPReader objects
    task,                   \* the _stream_loop tasks (task i runs reader i)
    waiters,                \* control calls suspended in "await task", oldest first
    bus_running,            \* FrameBus.is_running
    frame_queues,           \* FrameBus.frame_queues: session -> queue (0: no key)
    processing_tasks,       \* FrameBus.processing_tasks: session -> task (0: no key)
    nBus,                   \* queues created so far
    qbuf,                   \* contents of the asyncio.Queue objects
    ptask,                  \* the _process_frames tasks (task b is created with queue b)
    hist,                   \* history: what was published into / taken from a queue
    connects,               \* history: connect attempts (executor calls) of a reader
    issued,                 \* history: highest frame_id given to a frame of a session,
                            \* and whether a frame_id was given twice
    lim,                    \* the bounds of the run (never change)
    ret,                    \* history: the call that returned in the last step
    sink,                   \* history: the frames handed to the sink, per session
    evicted,                \* history: publish_frame dropped a frame of the session
    stray,                  \* the executor call a cancelled connect left running
    unsub,                  \* the unsubscribe call of a session: suspended / returned,
                            \* with the task it awaits and a second call that overlaps it
    published,              \* history: frames the stream loops handed to publish_frame
    frame_times,            \* FPSCounter.frame_times, in milliseconds
    clock,                  \* what time.time() returns, in milliseconds
    ticks,                  \* history: the calls of FPSCounter.tick so far
    bstop,                  \* the FrameBus.stop call: suspended / returned
    mstop,                  \* the StreamManager.stop call: suspended / returned
    sessions,               \* SessionManager.sessions: session -> config (0: no key)
    session_status,         \* SessionManager.session_status: session -> status ("none": no key)
    websockets,             \* SessionManager.websockets: session -> websocket (0: no key)
    total_sessions_created, \* SessionManager.total_sessions_created
    deleting,               \* the delete_session call of a session: suspended / returned
    api_ret,                \* history: the SessionManager call that returned in the last step
    streak                  \* history: reconnects of a reader that failed in a row

mgrVars == <<is_running, streams, stream_tasks, total_frames_processed, rd, task, waiters>>
busVars == <<bus_running, frame_queues, processing_tasks, nBus, qbuf, ptask>>
histVars == <<hist, connects, issued, ret>>
obsVars == <<sink, evicted, stray, unsub>>
fpsVars == <<frame_times, clock, ticks>>
apiVars == <<sessions, session_status, websockets, total_sessions_created, deleting, api_ret>>
moreVars == <<mstop, apiVars, streak>>
extVars == <<published, fpsVars, bstop, moreVars>>
vars == <<mgrVars, busVars, histVars, obsVars, lim, extVars>>

Nil == [frame_id |-> 0, src |-> 0]
Frame(fid, i) == [frame_id |-> fid, src |-> i]

NoReader == [session_id |-> "none", cfg |-> CfgWebcam, url |-> "none", is_webcam |-> FALSE,
             is_running |-> FALSE, is_connected |-> FALSE, capture |-> "none",
             reconnect_attempts |-> 0, max_reconnect_attempts |-> 0, total_frames |-> 0,
             dropped_frames |-> 0, opens |-> 0]
NoTask == [pc |-> "none", cancel |-> FALSE, outcome |-> "none", frame_id |-> 0]
NoPTask == [session_id |-> "none", pc |-> "none", cancel |-> FALSE, outcome |-> "none",
            queue |-> 0, cur |-> Nil]
NoSink == [last |-> 0, down |-> FALSE, sent |-> {}, twice |-> FALSE, failed |-> 0]
NoUnsub == [st |-> "none", pubs |-> FALSE, on |-> 0, second |-> "none"]
NoHist == [pubs |-> <<>>, n |-> 0, gets |-> 0, last |-> "none"]

\* history of a queue: the last max_queue_size + 1 frames published into it
KeepLast(q) == IF Len(q) > max_queue_size + 1 THEN Tail(q) ELSE q
NoMetrics == [found |-> FALSE, dropped_frames |-> 0, total_frames |-> 0]
NoRet == [kind |-> "none", session_id |-> "none", result |-> "none", cfg |-> CfgWebcam,
          inst |-> 0, replaced |-> FALSE, old_stopped |-> FALSE, old_cfg |-> CfgWebcam,
          metrics |-> NoMetrics, count |-> 0]

\* ------------------------------------------------------------- RTSPReader
\* RTSPReader.__init__ as StreamManager.start_stream calls it
NewReader(s, cfg) ==
    [NoReader EXCEPT !.session_id = s, !.cfg = cfg,
                     !.url = IF cfg.camera_type = "webcam" THEN "0" ELSE cfg.url,
                     !.is_webcam = (cfg.camera_type = "webcam"),
                     !.max_reconnect_attempts = lim.reconnect]

\* RTSPReader._disconnect
disconnect(r) == [r EXCEPT !.capture = "none", !.is_connected = FALSE]

\* faulty variant: stop releases the capture but leaves the reader running
reader_stop_still_running(r) == disconnect(r)

\* RTSPReader.stop
reader_stop(r) == disconnect([r EXCEPT !.is_running = FALSE])

\* faulty variant: a successful connect leaves the attempt counter as it is
connect_end_keeps_attempts(r, opened) ==
    IF opened
    THEN [r EXCEPT !.capture = "open", !.is_connected = TRUE, !.opens = @ + 1]
    ELSE [r EXCEPT !.capture = "unopened", !.is_connected = FALSE]

\* RTSPReader._connect after cv2.VideoCapture(url) returned; opened = isOpened()
connect_end(r, opened) ==
    IF opened
    THEN [r EXCEPT !.capture = "open", !.is_connected = TRUE, !.reconnect_attempts = 0,
                   !.opens = @ + 1]
    ELSE [r EXCEPT !.capture = "unopened", !.is_connected = FALSE]

\* the reader is out of reconnect attempts (the Failed state of the reader)
Failed(r) == ~r.is_connected /\ r.reconnect_attempts >= r.max_reconnect_attempts

\* faulty variant: the test of the attempt counter is off by one
reconnect_starts_off_by_one(r) == r.reconnect_attempts <= r.max_reconnect_attempts

\* RTSPReader._reconnect up to its sleep: TRUE when an attempt is started
reconnect_starts(r) == r.reconnect_attempts < r.max_reconnect_attempts

\* faulty variant: the attempt uses up the whole budget
reconnect_begin_last(r) ==
    disconnect([r EXCEPT !.reconnect_attempts = r.max_reconnect_attempts])

reconnect_begin(r) == disconnect([r EXCEPT !.reconnect_attempts = @ + 1])

\* faulty variant: a failed read is counted as a frame too
read_end_counts_failures(r, ok) ==
    IF ok THEN [r EXCEPT !.total_frames = @ + 1]
    ELSE [r EXCEPT !.total_frames = @ + 1, !.is_connected = FALSE]

\* RTSPReader.read_frame after capture.read returned; ok = ret and frame is not None
read_end(r, ok) ==
    IF ok THEN [r EXCEPT !.total_frames = @ + 1] ELSE [r EXCEPT !.is_connected = FALSE]

\* ------------------------------------------------------------- FPSCounter
\* times are whole milliseconds and rates are in frames per 1000 seconds, so that
\* the division of get_fps keeps three decimals
\* FPSCounter.tick at time now: append, then keep the times after now - window
tick(ft, now) == SelectSeq(Append(ft, now), LAMBDA t : t > now - window_ms)

\* FPSCounter.get_fps: len(frame_times) / (frame_times[-1] - frame_times[0])
get_fps(ft) ==
    IF Len(ft) < 2 THEN 0
    ELSE LET time_span == ft[Len(ft)] - ft[1] IN
         IF time_span = 0 THEN 0 ELSE (Len(ft) * 1000 * 1000) \div time_span

\* the rate of ticks that are TickGap apart, and a tenth of it
TargetFps == (1000 * 1000) \div TickGap
FpsTolerance == TargetFps \div 10

\* ------------------------------------------------------------- asyncio.Queue
queue_full(q) == Len(q) >= max_queue_size

\* faulty variant: put_nowait without the eviction
queue_publish_no_evict(q, f) == Append(q, f)

\* faulty variant: a full queue keeps its frames and the new frame is lost
queue_publish_drop_newest(q, f) == IF queue_full(q) THEN q ELSE Append(q, f)

\* what publish_frame does to the queue: drop the oldest when full, then put_nowait
queue_publish(q, f) == Append(IF queue_full(q) THEN Tail(q) ELSE q, f)

NoTicks == [n |-> 0, regular |-> TRUE, last |-> 0]
NoBusStop == [st |-> "none", on |-> 0, todo |-> <<>>, size |-> 0]
NoMgrStop == [st |-> "none", todo |-> <<>>, err |-> "none"]
NoDelete == [st |-> "none", ws |-> 0]
NoApiRet == [kind |-> "none", session_id |-> "none", result |-> "none"]

Constructed ==
    /\ is_running = FALSE
    /\ streams = [s \in Sessions |-> 0]
    /\ stream_tasks = [s \in Sessions |-> 0]
    /\ total_frames_processed = 0
    /\ rd = [i \in Insts |-> NoReader]
    /\ task = [i \in Insts |-> NoTask]
    /\ waiters = <<>>
    /\ bus_running = FALSE
    /\ frame_queues = [s \in Sessions |-> 0]
    /\ processing_tasks = [s \in Sessions |-> 0]
    /\ nBus = 0
    /\ qbuf = [b \in BusIds |-> <<>>]
    /\ ptask = [b \in BusIds |-> NoPTask]
    /\ hist = [b \in BusIds |-> NoHist]
    /\ connects = [i \in Insts |-> 0]
    /\ issued = [s \in Sessions |-> [hi |-> 0, dup |-> FALSE]]
    /\ ret = NoRet
    /\ sink = [s \in Sessions |-> NoSink]
    /\ evicted = [s \in Sessions |-> FALSE]
    /\ stray = [s \in Sessions |-> "none"]
    /\ unsub = [s \in Sessions |-> NoUnsub]
    /\ published = 0
    /\ frame_times = <<>>
    /\ clock = 0
    /\ ticks = NoTicks
    /\ bstop = NoBusStop
    /\ mstop = NoMgrStop
    /\ sessions = [s \in Sessions |-> 0]
    /\ session_status = [s \in Sessions |-> "none"]
    /\ websockets = [s \in Sessions |-> 0]
    /\ total_sessions_created = 0
    /\ deleting = [s \in Sessions |-> NoDelete]
    /\ api_ret = NoApiRet
    /\ streak = [i \in Insts |-> 0]

MgrLim == [insts |-> MgrInst, calls |-> MgrCalls, frames |-> MgrFrames, opens |-> MgrOpens,
           reconnect |-> MgrReconnect, total |-> MgrTotal, pubs |-> 0, sessions |-> {"s1"}]
RdLim == [insts |-> 1, calls |-> 0, frames |-> RdFrames, opens |-> RdOpens,
          reconnect |-> RdReconnect, total |-> RdFrames, pubs |-> 0, sessions |-> {"s1"}]
BusLim == [insts |-> 0, calls |-> 0, frames |-> 0, opens |-> 0, reconnect |-> 0,
           total |-> 0, pubs |-> MaxPub, sessions |-> {"s1"}]

SinkLim == [insts |-> MgrInst, calls |-> MgrCalls, frames |-> SinkFrames, opens |-> MgrOpens,
            reconnect |-> MgrReconnect, total |-> SinkTotal, pubs |-> 0, sessions |-> {"s1"}]

TwoLim == [insts |-> MgrInst, calls |-> MgrCalls, frames |-> MgrFrames, opens |-> MgrOpens,
           reconnect |-> MgrReconnect, total |-> MgrTotal, pubs |-> 0, sessions |-> Sessions]

BlockedLim == [TwoLim EXCEPT !.total = BlockedTotal]

ShutLim == [BlockedLim EXCEPT !.calls = ShutCalls]
StopsLim == [MgrLim EXCEPT !.calls = ShutCalls]
ApiLim == [BusLim EXCEPT !.pubs = 0, !.sessions = Sessions]
StopLim == [BusLim EXCEPT !.pubs = StopPubs, !.sessions = Sessions]

Init == Constructed /\ lim = MgrLim
InitSink == Constructed /\ lim = SinkLim
InitTwo == Constructed /\ lim = TwoLim
InitBlocked == Constructed /\ lim = BlockedLim
InitReader == Constructed /\ lim = RdLim
InitBus == Constructed /\ lim = BusLim
InitStop == Constructed /\ lim = StopLim
InitShut == Constructed /\ lim = ShutLim
InitStops == Constructed /\ lim = StopsLim
InitApi == Constructed /\ lim = ApiLim

\* StreamManager.start (and FrameBus.start, which it awaits without suspending)
start ==
    /\ ~is_running
    /\ is_running' = TRUE
    /\ bus_running' = TRUE
    /\ UNCHANGED <<streams, stream_tasks, total_frames_processed, rd, task, waiters>>
    /\ UNCHANGED <<frame_queues, processing_tasks, nBus, qbuf, ptask>>

\* ------------------------------------------------------------- FrameBus
\* faulty variant: "await queue.put(...)", which waits while the queue is full
publish_frame_blocking(s, f) ==
    /\ bus_running' = bus_running
    /\ IF frame_queues[s] = 0
       THEN LET b == nBus + 1 IN
            /\ nBus' = b
            /\ frame_queues' = [frame_queues EXCEPT ![s] = b]
            /\ processing_tasks' = [processing_tasks EXCEPT ![s] = b]
            /\ ptask' = [ptask EXCEPT ![b] = [NoPTask EXCEPT !.session_id = s, !.pc = "init"]]
            /\ qbuf' = [qbuf EXCEPT ![b] = Append(<<>>, f)]
       ELSE LET b == frame_queues[s] IN
            /\ ~queue_full(qbuf[b])
            /\ qbuf' = [qbuf EXCEPT ![b] = Append(@, f)]
            /\ UNCHANGED <<nBus, frame_queues, processing_tasks, ptask>>

\* faulty variant: a publish that finds the task of the queue done starts a new one
publish_frame_respawns(s, f) ==
    /\ bus_running' = bus_running
    /\ IF frame_queues[s] = 0
       THEN LET b == nBus + 1 IN
            /\ nBus' = b
            /\ frame_queues' = [frame_queues EXCEPT ![s] = b]
            /\ processing_tasks' = [processing_tasks EXCEPT ![s] = b]
            /\ ptask' = [ptask EXCEPT ![b] = [NoPTask EXCEPT !.session_id = s, !.pc = "init"]]
            /\ qbuf' = [qbuf EXCEPT ![b] = queue_publish(<<>>, f)]
       ELSE LET b == frame_queues[s] IN
            /\ qbuf' = [qbuf EXCEPT ![b] = queue_publish(@, f)]
            /\ ptask' = [ptask EXCEPT ![b] =
                            IF @.pc = "done"
                            THEN [NoPTask EXCEPT !.session_id = s, !.pc = "init"] ELSE @]
            /\ UNCHANGED <<nBus, frame_queues, processing_tasks>>

\* FrameBus.publish_frame: no await in it suspends, so it is one step of its caller
publish_frame(s, f) ==
    /\ bus_running' = bus_running
    /\ IF frame_queues[s] = 0
       THEN LET b == nBus + 1 IN
            /\ nBus' = b
            /\ frame_queues' = [frame_queues EXCEPT ![s] = b]
            /\ processing_tasks' = [processing_tasks EXCEPT ![s] = b]
            /\ ptask' = [ptask EXCEPT ![b] = [NoPTask EXCEPT !.session_id = s, !.pc = "init"]]
            /\ qbuf' = [qbuf EXCEPT ![b] = queue_publish(<<>>, f)]
       ELSE LET b == frame_queues[s] IN
            /\ qbuf' = [qbuf EXCEPT ![b] = queue_publish(@, f)]
            /\ UNCHANGED <<nBus, frame_queues, processing_tasks, ptask>>

\* the model can still create the queue publish_frame needs
BusRoom(s) == frame_queues[s] # 0 \/ nBus < MaxBus

\* FrameBus._process_frames: the test of "while self.is_running"
process_loop(p) ==
    IF bus_running THEN [p EXCEPT !.pc = "waiting", !.cur = Nil]
    ELSE [p EXCEPT !.pc = "done", !.outcome = "returned", !.cur = Nil]

\* FrameBus._process_frames, first step: queue = self.frame_queues[session_id]
process_begin(b) ==
    /\ ptask[b].pc = "init" /\ ~ptask[b].cancel
    /\ LET q == frame_queues[ptask[b].session_id] IN
       ptask' = [ptask EXCEPT ![b] =
                    IF q = 0 THEN [@ EXCEPT !.pc = "done", !.outcome = "error"]
                    ELSE process_loop([@ EXCEPT !.queue = q])]
    /\ UNCHANGED <<bus_running, frame_queues, processing_tasks, nBus, qbuf>>

\* faulty variant: "await queue.get()" without a timeout, which returns only when a
\* frame arrives
process_wait_forever(b, encoded) ==
    /\ ptask[b].pc = "waiting" /\ ~ptask[b].cancel
    /\ LET q == ptask[b].queue IN
       /\ qbuf[q] # <<>>
       /\ ptask' = [ptask EXCEPT ![b] =
                       IF encoded THEN [@ EXCEPT !.pc = "sending", !.cur = Head(qbuf[q])]
                       ELSE [@ EXCEPT !.pc = "done", !.outcome = "error"]]
       /\ qbuf' = [qbuf EXCEPT ![q] = Tail(@)]
    /\ UNCHANGED <<bus_running, frame_queues, processing_tasks, nBus>>

\* FrameBus._process_frames: wait_for(queue.get(), 1.0) returns a frame, which is
\* encoded and posted to the sink (suspends in the post), or times out; encoded: the
\* frame is encoded (an exception before the post ends the task, lines 164-165)
process_wait(b, encoded) ==
    /\ ptask[b].pc = "waiting" /\ ~ptask[b].cancel
    /\ LET q == ptask[b].queue IN
       IF qbuf[q] # <<>>
       THEN /\ ptask' = [ptask EXCEPT ![b] =
                            IF encoded THEN [@ EXCEPT !.pc = "sending", !.cur = Head(qbuf[q])]
                            ELSE [@ EXCEPT !.pc = "done", !.outcome = "error"]]
            /\ qbuf' = [qbuf EXCEPT ![q] = Tail(@)]
       ELSE /\ ptask' = [ptask EXCEPT ![b] = process_loop(@)]
            /\ UNCHANGED qbuf
    /\ UNCHANGED <<bus_running, frame_queues, processing_tasks, nBus>>

\* faulty variant: an exception of the post leaves the loop
process_sent_fatal(b, ok) ==
    /\ ptask[b].pc = "sending" /\ ~ptask[b].cancel
    /\ ptask' = [ptask EXCEPT ![b] = IF ok THEN process_loop(@)
                                     ELSE [@ EXCEPT !.pc = "done", !.outcome = "error",
                                                    !.cur = Nil]]
    /\ UNCHANGED <<bus_running, frame_queues, processing_tasks, nBus, qbuf>>

\* faulty variant: a frame whose post failed is put back at the head of the queue
process_sent_retry(b, ok) ==
    /\ ptask[b].pc = "sending" /\ ~ptask[b].cancel
    /\ ptask' = [ptask EXCEPT ![b] = process_loop(@)]
    /\ qbuf' = [qbuf EXCEPT ![ptask[b].queue] =
                    IF ok \/ queue_full(@) THEN @ ELSE <<ptask[b].cur>> \o @]
    /\ UNCHANGED <<bus_running, frame_queues, processing_tasks, nBus>>

\* FrameBus._process_frames: the post to the sink returned (ok) or raised, which
\* "except Exception" logs (lines 139-155); the loop goes on with the next get
process_sent(b, ok) ==
    /\ ptask[b].pc = "sending" /\ ~ptask[b].cancel
    /\ ptask' = [ptask EXCEPT ![b] = process_loop(@)]
    /\ UNCHANGED <<bus_running, frame_queues, processing_tasks, nBus, qbuf>>

\* FrameBus.start
bus_start ==
    /\ ~bus_running
    /\ bus_running' = TRUE
    /\ UNCHANGED <<frame_queues, processing_tasks, nBus, qbuf, ptask>>

\* the distribution task was cancelled: CancelledError is raised at its await (or at
\* its first step) and ends it
process_cancelled(b) ==
    /\ ptask[b].pc \notin {"none", "done"} /\ ptask[b].cancel
    /\ ptask' = [ptask EXCEPT ![b].pc = "done", ![b].outcome = "cancelled", ![b].cur = Nil]
    /\ UNCHANGED <<bus_running, frame_queues, processing_tasks, nBus, qbuf>>

\* FrameBus.unsubscribe from "del self.processing_tasks[session_id]" on (lines 181-185)
unsubscribe_finish(s) ==
    /\ processing_tasks' = [processing_tasks EXCEPT ![s] = 0]
    /\ frame_queues' = [frame_queues EXCEPT ![s] = 0]
    /\ unsub' = [unsub EXCEPT ![s] = [@ EXCEPT !.st = "returned", !.on = 0, !.second = "none"]]
    /\ UNCHANGED <<bus_running, nBus, qbuf>>

\* faulty variant: the task is cancelled and not awaited
unsubscribe_no_wait(s) ==
    /\ unsub[s].st # "waiting"
    /\ IF processing_tasks[s] # 0
       THEN /\ ptask' = [ptask EXCEPT ![processing_tasks[s]].cancel = (@ \/ ptask[processing_tasks[s]].pc # "done")]
            /\ unsubscribe_finish(s)
       ELSE /\ unsubscribe_finish(s)
            /\ UNCHANGED ptask

\* FrameBus.unsubscribe: cancels the task of the session and awaits it; the call
\* suspends when the task is not done (one call per session at a time)
unsubscribe(s) ==
    /\ unsub[s].st # "waiting"
    /\ IF processing_tasks[s] # 0
       THEN LET b == processing_tasks[s] IN
            IF ptask[b].pc = "done"
            THEN /\ unsubscribe_finish(s)
                 /\ UNCHANGED ptask
            ELSE /\ ptask' = [ptask EXCEPT ![b].cancel = TRUE]
                 /\ unsub' = [unsub EXCEPT ![s] = [NoUnsub EXCEPT !.st = "waiting", !.on = b]]
                 /\ UNCHANGED <<bus_running, frame_queues, processing_tasks, nBus, qbuf>>
       ELSE /\ unsubscribe_finish(s)
            /\ UNCHANGED ptask

\* the awaited task is done: unsubscribe goes on with the two "del" (line 181 raises
\* KeyError when the entry is gone); a second call that awaits the same task goes on
\* right behind it (the callbacks of a task run one after the other) and finds no
\* entry to delete
unsubscribe_resume(s) ==
    /\ unsub[s].st = "waiting"
    /\ ptask[unsub[s].on].pc = "done"
    /\ IF processing_tasks[s] = 0
       THEN /\ unsub' = [unsub EXCEPT ![s] = [@ EXCEPT !.st = "raised"]]
            /\ UNCHANGED <<bus_running, frame_queues, processing_tasks, nBus, qbuf>>
       ELSE /\ processing_tasks' = [processing_tasks EXCEPT ![s] = 0]
            /\ frame_queues' = [frame_queues EXCEPT ![s] = 0]
            /\ unsub' = [unsub EXCEPT ![s] =
                            [@ EXCEPT !.st = "returned",
                                      !.second = IF @ = "waiting" THEN "raised" ELSE @]]
            /\ UNCHANGED <<bus_running, nBus, qbuf>>
    /\ UNCHANGED ptask

\* FrameBus.unsubscribe called while a call for the same session is suspended: it
\* awaits the same task, or runs to its end when that task is already done
unsubscribe_again(s) ==
    /\ unsub[s].st = "waiting" /\ unsub[s].second = "none"
    /\ IF processing_tasks[s] # 0 /\ ptask[processing_tasks[s]].pc # "done"
       THEN /\ ptask' = [ptask EXCEPT ![processing_tasks[s]].cancel = TRUE]
            /\ unsub' = [unsub EXCEPT ![s].second = "waiting"]
            /\ UNCHANGED <<bus_running, frame_queues, processing_tasks, nBus, qbuf>>
       ELSE /\ processing_tasks' = [processing_tasks EXCEPT ![s] = 0]
            /\ frame_queues' = [frame_queues EXCEPT ![s] = 0]
            /\ unsub' = [unsub EXCEPT ![s].second = "returned"]
            /\ UNCHANGED <<bus_running, nBus, qbuf, ptask>>

\* the values of self.processing_tasks in the order of the dict (the order in which
\* the entries were made: a later task has a higher number)
TaskEntries == {processing_tasks[s] : s \in Sessions} \ {0}

RECURSIVE InOrder(_)
InOrder(S) ==
    IF S = {} THEN <<>>
    ELSE LET m == CHOOSE x \in S : \A y \in S : x <= y IN <<m>> \o InOrder(S \ {m})

\* the "for" of FrameBus.stop from the tasks todo on: cancel() and "await task" do not
\* suspend on a task that is done; on: the first task the call has to wait for
RECURSIVE stop_walk(_)
stop_walk(todo) ==
    IF todo = <<>> THEN [on |-> 0, todo |-> <<>>]
    ELSE IF ptask[Head(todo)].pc = "done" THEN stop_walk(Tail(todo))
    ELSE [on |-> Head(todo), todo |-> Tail(todo)]

\* FrameBus.stop from its loop on (lines 57-66): it suspends at the first task that
\* is not done, or clears the two tables and returns
bus_stop_go(todo, size) ==
    LET w == stop_walk(todo) IN
    IF w.on = 0
    THEN /\ processing_tasks' = [s \in Sessions |-> 0]
         /\ frame_queues' = [s \in Sessions |-> 0]
         /\ bstop' = [NoBusStop EXCEPT !.st = "returned"]
         /\ UNCHANGED <<nBus, qbuf, ptask>>
    ELSE /\ ptask' = [ptask EXCEPT ![w.on].cancel = TRUE]
         /\ bstop' = [st |-> "waiting", on |-> w.on, todo |-> w.todo, size |-> size]
         /\ UNCHANGED <<frame_queues, processing_tasks, nBus, qbuf>>

\* FrameBus.stop
bus_stop ==
    /\ bstop.st # "waiting"
    /\ bus_running' = FALSE
    /\ bus_stop_go(InOrder(TaskEntries), Cardinality(TaskEntries))

\* the task FrameBus.stop awaited is done: the "for" asks the dict for its next value,
\* which raises RuntimeError when an entry was added since the loop began
bus_stop_resume ==
    /\ bstop.st = "waiting"
    /\ ptask[bstop.on].pc = "done"
    /\ IF Cardinality(TaskEntries) # bstop.size
       THEN /\ bstop' = [NoBusStop EXCEPT !.st = "raised"]
            /\ UNCHANGED <<frame_queues, processing_tasks, nBus, qbuf, ptask>>
       ELSE bus_stop_go(bstop.todo, bstop.size)
    /\ UNCHANGED bus_running

\* history of unsubscribe: a publish of the session ran while the call was suspended,
\* or after it returned
HistUnsubPublish(s) ==
    unsub' = [unsub EXCEPT ![s] = IF @.st = "waiting" THEN [@ EXCEPT !.pubs = TRUE] ELSE NoUnsub]

RECURSIVE PubCount(_)
PubCount(b) == IF b = 0 THEN 0 ELSE hist[b].n + PubCount(b - 1)

\* a caller of the bus publishes its next frame
bus_publish(s) ==
    /\ PubCount(MaxBus) < lim.pubs
    /\ BusRoom(s)
    /\ LET f == Frame(PubCount(MaxBus) + 1, 0)
           b == IF frame_queues[s] = 0 THEN nBus + 1 ELSE frame_queues[s] IN
       /\ publish_frame(s, f)
       /\ hist' = [hist EXCEPT ![b] = [pubs |-> KeepLast(Append(@.pubs, f)), n |-> @.n + 1,
                                        gets |-> @.gets, last |-> "publish"]]

\* history of the dequeues: the queue a task took a frame from in this step
HistGets ==
    hist' = [q \in BusIds |->
                IF Len(qbuf'[q]) < Len(qbuf[q])
                THEN [hist[q] EXCEPT !.gets = 1, !.last = "get"]
                ELSE hist[q]]

\* ------------------------------------------------------------- StreamManager._stream_loop
\* top of "while self.is_running": the test, then RTSPReader.read_frame up to its
\* first suspension (lines 175-179 with _reconnect up to its sleep, or the executor read)
stream_loop_top(r) ==
    IF ~is_running THEN [rd |-> r, pc |-> "done"]
    ELSE IF ~r.is_connected \/ r.capture = "none"
         THEN IF r.is_running /\ reconnect_starts(r)
              THEN [rd |-> reconnect_begin(r), pc |-> "reconnect_sleep"]
              ELSE [rd |-> r, pc |-> IF r.is_connected THEN "sleep_short" ELSE "sleep_disc"]
         ELSE [rd |-> r, pc |-> "reading"]

Sleeping == {"pace", "sleep_disc", "sleep_short"}
\* the loop awaits a run_in_executor call: cv2.VideoCapture(url) or capture.read
InExecutor == {"connecting", "reconnecting", "reading"}
Alive(i) == task[i].pc \notin {"none", "done"}

\* nothing refers to reader and task i: no table entry, no call awaiting the task
Unref(i, st, tk, ws) ==
    /\ \A s \in Sessions : st[s] # i /\ tk[s] # i
    /\ \A k \in 1..Len(ws) : ws[k].on # i

\* reader i and its task after a step of the task
Settle(i, r, tk) ==
    LET gone == tk.pc = "done" /\ Unref(i, streams, stream_tasks, waiters) IN
    /\ rd' = [rd EXCEPT ![i] = IF gone THEN NoReader ELSE r]
    /\ task' = [task EXCEPT ![i] = IF gone THEN NoTask ELSE tk]

\* first step of the task: reader.start() up to the executor call of _connect
stream_loop_begin(i) ==
    /\ task[i].pc = "init" /\ ~task[i].cancel
    /\ rd' = [rd EXCEPT ![i].is_running = TRUE]
    /\ task' = [task EXCEPT ![i].pc = "connecting"]
    /\ UNCHANGED <<is_running, streams, stream_tasks, total_frames_processed, waiters>>
    /\ UNCHANGED busVars

\* faulty variant: "except Exception" takes the failed session out of both tables
stream_loop_connected_deregisters(i, opened) ==
    /\ task[i].pc = "connecting" /\ ~task[i].cancel
    /\ opened => rd[i].opens < lim.opens
    /\ LET r1 == connect_end(rd[i], opened)
           top == stream_loop_top(r1) IN
       IF opened
       THEN /\ Settle(i, top.rd, [task[i] EXCEPT !.pc = top.pc, !.frame_id = 0,
                                     !.outcome = IF top.pc = "done" THEN "returned" ELSE @])
            /\ UNCHANGED <<streams, stream_tasks>>
       ELSE /\ streams' = [s \in Sessions |-> IF streams[s] = i THEN 0 ELSE streams[s]]
            /\ stream_tasks' = [s \in Sessions |->
                                  IF stream_tasks[s] = i THEN 0 ELSE stream_tasks[s]]
            /\ rd' = [rd EXCEPT ![i] = r1]
            /\ task' = [task EXCEPT ![i] = [@ EXCEPT !.pc = "done", !.outcome = "error"]]
    /\ UNCHANGED <<is_running, total_frames_processed, waiters>>
    /\ UNCHANGED busVars

\* the initial connect returned: a failure raises out of reader.start() and ends the
\* loop in "except Exception"; a success enters the loop with frame_id = 0
stream_loop_connected(i, opened) ==
    /\ task[i].pc = "connecting" /\ ~task[i].cancel
    /\ opened => rd[i].opens < lim.opens
    /\ LET r1 == connect_end(rd[i], opened)
           top == stream_loop_top(r1) IN
       IF opened
       THEN Settle(i, top.rd, [task[i] EXCEPT !.pc = top.pc, !.frame_id = 0,
                                  !.outcome = IF top.pc = "done" THEN "returned" ELSE @])
       ELSE Settle(i, r1, [task[i] EXCEPT !.pc = "done", !.outcome = "error"])
    /\ UNCHANGED <<is_running, streams, stream_tasks, total_frames_processed, waiters>>
    /\ UNCHANGED busVars

\* faulty variant: frame_id counts the reads, not the frames
loop_frame_counts_reads(tk, ok) ==
    [tk EXCEPT !.pc = IF ok THEN "pace" ELSE "sleep_disc", !.frame_id = @ + 1]

\* the loop after read_frame returned (lines 153-170): frame_id counts the frames
loop_frame(tk, ok) ==
    IF ok THEN [tk EXCEPT !.pc = "pace", !.frame_id = @ + 1]
    ELSE [tk EXCEPT !.pc = "sleep_disc"]

\* faulty variant: the increment is a read and a write with an await between them, so
\* it is lost when another loop has a read in flight
count_frame_lost_update(n, i) ==
    IF \E j \in Insts \ {i} : task[j].pc = "reading" THEN n ELSE n + 1

\* "self.total_frames_processed += 1" of loop i (line 167): no await between the read
\* and the write of the counter
count_frame(n, i) == n + 1

\* the executor read returned: a frame gets the next frame_id and is published, then
\* the loop sleeps 1/fps; no frame marks the reader disconnected and the loop sleeps 1 s
stream_loop_read(i, ok) ==
    /\ task[i].pc = "reading" /\ ~task[i].cancel
    /\ ok => /\ task[i].frame_id < lim.frames /\ total_frames_processed < lim.total
             /\ BusRoom(rd[i].session_id)
    /\ rd' = [rd EXCEPT ![i] = read_end(@, ok)]
    /\ task' = [task EXCEPT ![i] = loop_frame(@, ok)]
    /\ IF ok
       THEN /\ publish_frame(rd[i].session_id, Frame(loop_frame(task[i], ok).frame_id, i))
            /\ total_frames_processed' = count_frame(total_frames_processed, i)
       ELSE /\ UNCHANGED total_frames_processed
            /\ UNCHANGED busVars
    /\ UNCHANGED <<is_running, streams, stream_tasks, waiters>>

\* a sleep of the loop ended
stream_loop_wake(i) ==
    /\ task[i].pc \in Sleeping /\ ~task[i].cancel
    /\ LET top == stream_loop_top(rd[i]) IN
       Settle(i, top.rd, [task[i] EXCEPT !.pc = top.pc,
                             !.outcome = IF top.pc = "done" THEN "returned" ELSE @])
    /\ UNCHANGED <<is_running, streams, stream_tasks, total_frames_processed, waiters>>
    /\ UNCHANGED busVars

\* RTSPReader._reconnect: the reconnect delay ended, _connect runs up to its executor call
stream_loop_reconnect(i) ==
    /\ task[i].pc = "reconnect_sleep" /\ ~task[i].cancel
    /\ task' = [task EXCEPT ![i].pc = "reconnecting"]
    /\ UNCHANGED <<is_running, streams, stream_tasks, total_frames_processed, rd, waiters>>
    /\ UNCHANGED busVars

\* faulty variant: the exception of a failed connect leaves _reconnect and read_frame
stream_loop_reconnected_raises(i, opened) ==
    /\ task[i].pc = "reconnecting" /\ ~task[i].cancel
    /\ opened => rd[i].opens < lim.opens
    /\ IF opened
       THEN /\ rd' = [rd EXCEPT ![i] = connect_end(@, opened)]
            /\ task' = [task EXCEPT ![i].pc = "sleep_short"]
       ELSE Settle(i, connect_end(rd[i], opened),
                   [task[i] EXCEPT !.pc = "done", !.outcome = "error"])
    /\ UNCHANGED <<is_running, streams, stream_tasks, total_frames_processed, waiters>>
    /\ UNCHANGED busVars

\* RTSPReader._reconnect: its connect returned; read_frame returns None either way
stream_loop_reconnected(i, opened) ==
    /\ task[i].pc = "reconnecting" /\ ~task[i].cancel
    /\ opened => rd[i].opens < lim.opens
    /\ rd' = [rd EXCEPT ![i] = connect_end(@, opened)]
    /\ task' = [task EXCEPT ![i].pc = IF opened THEN "sleep_short" ELSE "sleep_disc"]
    /\ UNCHANGED <<is_running, streams, stream_tasks, total_frames_processed, waiters>>
    /\ UNCHANGED busVars

\* the task was cancelled: CancelledError is raised at its await and ends it
stream_loop_cancelled(i) ==
    /\ Alive(i) /\ task[i].cancel
    /\ Settle(i, rd[i], [task[i] EXCEPT !.pc = "done", !.outcome = "cancelled"])
    /\ UNCHANGED <<is_running, streams, stream_tasks, total_frames_processed, waiters>>
    /\ UNCHANGED busVars

\* ------------------------------------------------------------- StreamManager calls
\* the manager's tables as one value, with the exception a call ends in
Mgr == [streams |-> streams, stream_tasks |-> stream_tasks, rd |-> rd, task |-> task,
        err |-> "none", inst |-> 0, old_stopped |-> FALSE]

\* reader old is stopped and its task is done
Stopped(m, old) ==
    /\ m.task[old].pc = "done"
    /\ ~m.rd[old].is_running /\ ~m.rd[old].is_connected /\ m.rd[old].capture = "none"

\* a finished task that nothing refers to is freed with its reader; ws: the calls that
\* stay suspended
Collect(m, ws) ==
    LET gone(i) == m.task[i].pc = "done" /\ Unref(i, m.streams, m.stream_tasks, ws) IN
    [m EXCEPT !.rd = [i \in Insts |-> IF gone(i) THEN NoReader ELSE m.rd[i]],
              !.task = [i \in Insts |-> IF gone(i) THEN NoTask ELSE m.task[i]]]

\* faulty variant: the registry entry is removed and the reader is not stopped
stop_finish_keeps_reader(m, s, had_task, ws) ==
    IF had_task /\ m.stream_tasks[s] = 0 THEN Collect([m EXCEPT !.err = "KeyError"], ws)
    ELSE LET m1 == IF had_task THEN [m EXCEPT !.stream_tasks[s] = 0] ELSE m IN
         IF m1.streams[s] = 0 THEN Collect([m1 EXCEPT !.err = "KeyError"], ws)
         ELSE LET old == m1.streams[s]
                  m2 == [m1 EXCEPT !.streams[s] = 0] IN
              Collect([m2 EXCEPT !.old_stopped = Stopped(m2, old)], ws)

\* faulty variant: the reader is stopped and its registry entry is not deleted
stop_finish_keeps_entry(m, s, had_task, ws) ==
    IF had_task /\ m.stream_tasks[s] = 0 THEN Collect([m EXCEPT !.err = "KeyError"], ws)
    ELSE LET m1 == IF had_task THEN [m EXCEPT !.stream_tasks[s] = 0] ELSE m IN
         IF m1.streams[s] = 0 THEN Collect([m1 EXCEPT !.err = "KeyError"], ws)
         ELSE LET old == m1.streams[s]
                  m2 == [m1 EXCEPT !.rd[old] = reader_stop(@)] IN
              Collect([m2 EXCEPT !.old_stopped = Stopped(m2, old)], ws)

\* faulty variant: the registry is emptied ("self.streams.clear()")
stop_finish_clears_all(m, s, had_task, ws) ==
    IF had_task /\ m.stream_tasks[s] = 0 THEN Collect([m EXCEPT !.err = "KeyError"], ws)
    ELSE LET m1 == IF had_task THEN [m EXCEPT !.stream_tasks[s] = 0] ELSE m IN
         IF m1.streams[s] = 0 THEN Collect([m1 EXCEPT !.err = "KeyError"], ws)
         ELSE LET old == m1.streams[s]
                  m2 == [m1 EXCEPT !.rd[old] = reader_stop(@),
                                   !.streams = [x \in Sessions |-> 0]] IN
              Collect([m2 EXCEPT !.old_stopped = Stopped(m2, old)], ws)

\* StreamManager.stop_stream after "await task" (lines 128-134); had_task: the body of
\* "if session_id in self.stream_tasks" was entered
stop_finish(m, s, had_task, ws) ==
    IF had_task /\ m.stream_tasks[s] = 0 THEN Collect([m EXCEPT !.err = "KeyError"], ws)
    ELSE LET m1 == IF had_task THEN [m EXCEPT !.stream_tasks[s] = 0] ELSE m IN
         IF m1.streams[s] = 0 THEN Collect([m1 EXCEPT !.err = "KeyError"], ws)
         ELSE LET old == m1.streams[s]
                  m2 == [m1 EXCEPT !.rd[old] = reader_stop(@), !.streams[s] = 0] IN
              Collect([m2 EXCEPT !.old_stopped = Stopped(m2, old)], ws)

\* faulty variant: the url of a network camera is not looked at
ValidConfig_any_url(cfg) == cfg.camera_type \in {"rtsp", "http", "webcam"}

ValidConfig(cfg) ==
    /\ cfg.camera_type \in {"rtsp", "http", "webcam"}
    /\ cfg.camera_type \in {"rtsp", "http"} => cfg.url # "none"

Free(m) == {i \in Insts : i <= lim.insts /\ m.task[i].pc = "none"}
NewInst(m) == CHOOSE i \in Free(m) : \A j \in Free(m) : i <= j

\* faulty variant: start_stream runs reader.start() itself up to the executor call and
\* hands the capture task a reader that is already connecting
start_finish_connects_first(m, s, cfg) ==
    IF m.err # "none" THEN m
    ELSE IF ~ValidConfig(cfg) THEN [m EXCEPT !.err = "ValueError"]
    ELSE LET i == NewInst(m) IN
         [m EXCEPT !.inst = i,
                   !.rd[i] = [NewReader(s, cfg) EXCEPT !.is_running = TRUE],
                   !.task[i] = [NoTask EXCEPT !.pc = "connecting"],
                   !.streams[s] = i,
                   !.stream_tasks[s] = i]

\* StreamManager.start_stream after its stop_stream (lines 72-107)
start_finish(m, s, cfg) ==
    IF m.err # "none" THEN m
    ELSE IF ~ValidConfig(cfg) THEN [m EXCEPT !.err = "ValueError"]
    ELSE LET i == NewInst(m) IN
         [m EXCEPT !.inst = i,
                   !.rd[i] = NewReader(s, cfg),
                   !.task[i] = [NoTask EXCEPT !.pc = "init"],
                   !.streams[s] = i,
                   !.stream_tasks[s] = i]

\* the model has room for the reader the call constructs
InstRoom(m, cfg) == (m.err = "none" /\ ValidConfig(cfg)) => Free(m) # {}

\* the call returns (or raises err) leaving the manager as m and ws suspended calls
Return(m, kind, s, cfg, old, ws) ==
    /\ streams' = m.streams
    /\ stream_tasks' = m.stream_tasks
    /\ rd' = m.rd
    /\ task' = m.task
    /\ waiters' = ws
    /\ ret' = [kind |-> kind, session_id |-> s, inst |-> m.inst,
               cfg |-> IF m.err = "none" THEN cfg ELSE CfgWebcam,
               replaced |-> old # 0, old_stopped |-> m.old_stopped,
               old_cfg |-> IF old # 0 /\ m.err = "none" THEN rd[old].cfg ELSE CfgWebcam,
               result |-> IF m.err = "none" THEN "ok" ELSE m.err,
               metrics |-> NoMetrics, count |-> 0]

\* task.cancel() and "await task" on a task that is not done: the call suspends
Suspend(kind, s, cfg) ==
    LET t == stream_tasks[s] IN
    /\ Len(waiters) < lim.calls
    /\ task' = [task EXCEPT ![t].cancel = TRUE]
    /\ waiters' = Append(waiters, [kind |-> kind, session_id |-> s, cfg |-> cfg, on |-> t])
    /\ ret' = NoRet
    /\ UNCHANGED <<streams, stream_tasks, rd>>

Suspends(s) == stream_tasks[s] # 0 /\ task[stream_tasks[s]].pc # "done"

\* faulty variant: the descriptor is validated before the registered session is stopped
start_stream_validates_first(s, cfg) ==
    /\ is_running
    /\ IF ~ValidConfig(cfg)
       THEN Return([Mgr EXCEPT !.err = "ValueError"], "start", s, cfg, streams[s], waiters)
       ELSE IF streams[s] = 0
       THEN /\ InstRoom(Mgr, cfg)
            /\ Return(start_finish(Mgr, s, cfg), "start", s, cfg, 0, waiters)
       ELSE IF Suspends(s)
            THEN Suspend("start", s, cfg)
            ELSE LET m == stop_finish(Mgr, s, stream_tasks[s] # 0, waiters) IN
                 /\ InstRoom(m, cfg)
                 /\ Return(start_finish(m, s, cfg), "start", s, cfg, streams[s], waiters)
    /\ UNCHANGED <<is_running, total_frames_processed>>
    /\ UNCHANGED busVars

\* StreamManager.start_stream, called while the service runs (main.py lifespan)
start_stream(s, cfg) ==
    /\ is_running
    /\ IF streams[s] = 0
       THEN /\ InstRoom(Mgr, cfg)
            /\ Return(start_finish(Mgr, s, cfg), "start", s, cfg, 0, waiters)
       ELSE IF Suspends(s)
            THEN Suspend("start", s, cfg)
            ELSE LET m == stop_finish(Mgr, s, stream_tasks[s] # 0, waiters) IN
                 /\ InstRoom(m, cfg)
                 /\ Return(start_finish(m, s, cfg), "start", s, cfg, streams[s], waiters)
    /\ UNCHANGED <<is_running, total_frames_processed>>
    /\ UNCHANGED busVars

\* faulty variant: a session that is not registered is stopped without an error
stop_stream_silent(s) ==
    /\ is_running
    /\ IF streams[s] = 0
       THEN Return(Mgr, "stop", s, CfgWebcam, 0, waiters)
       ELSE IF Suspends(s)
            THEN Suspend("stop", s, CfgWebcam)
            ELSE Return(stop_finish(Mgr, s, stream_tasks[s] # 0, waiters),
                        "stop", s, CfgWebcam, streams[s], waiters)
    /\ UNCHANGED <<is_running, total_frames_processed>>
    /\ UNCHANGED busVars

\* faulty variant: the capture calls run on the event loop itself (no
\* run_in_executor), so no control call runs while a connect or a read is in flight
stop_stream_behind_reads(s) ==
    /\ is_running
    /\ \A i \in Insts : task[i].pc \notin InExecutor
    /\ IF streams[s] = 0
       THEN Return([Mgr EXCEPT !.err = "ValueError"], "stop", s, CfgWebcam, 0, waiters)
       ELSE IF Suspends(s)
            THEN Suspend("stop", s, CfgWebcam)
            ELSE Return(stop_finish(Mgr, s, stream_tasks[s] # 0, waiters),
                        "stop", s, CfgWebcam, streams[s], waiters)
    /\ UNCHANGED <<is_running, total_frames_processed>>
    /\ UNCHANGED busVars

\* StreamManager.stop_stream, whoever calls it
stop_stream_call(s) ==
    /\ IF streams[s] = 0
       THEN Return([Mgr EXCEPT !.err = "ValueError"], "stop", s, CfgWebcam, 0, waiters)
       ELSE IF Suspends(s)
            THEN Suspend("stop", s, CfgWebcam)
            ELSE Return(stop_finish(Mgr, s, stream_tasks[s] # 0, waiters),
                        "stop", s, CfgWebcam, streams[s], waiters)
    /\ UNCHANGED <<is_running, total_frames_processed>>
    /\ UNCHANGED busVars

\* StreamManager.stop_stream, called while the service runs (main.py lifespan)
stop_stream(s) == is_running /\ stop_stream_call(s)

\* the awaited task is done: the suspended call goes on (callbacks of one task run in
\* the order the calls awaited it)
resume(k) ==
    /\ k \in 1..Len(waiters)
    /\ task[waiters[k].on].pc = "done"
    /\ \A j \in 1..(k - 1) : waiters[j].on # waiters[k].on
    /\ LET w == waiters[k]
           ws == [j \in 1..(Len(waiters) - 1) |-> IF j < k THEN waiters[j] ELSE waiters[j + 1]]
           m == stop_finish(Mgr, w.session_id, TRUE, ws) IN
       IF w.kind = "start"
       THEN /\ InstRoom(m, w.cfg)
            /\ Return(start_finish(m, w.session_id, w.cfg), "start", w.session_id, w.cfg,
                      w.on, ws)
       ELSE Return(m, "stop", w.session_id, w.cfg, w.on, ws)
    /\ UNCHANGED <<is_running, total_frames_processed>>
    /\ UNCHANGED busVars

\* faulty variant: the counters are those the reader had when it was registered
get_stream_metrics_cached(s) ==
    IF streams[s] = 0 THEN NoMetrics
    ELSE [found |-> TRUE, dropped_frames |-> NewReader(s, CfgWebcam).dropped_frames,
          total_frames |-> NewReader(s, CfgWebcam).total_frames]

\* the orders in which a dict can hold the keys S
KeyOrders(S) ==
    {q \in [1..Cardinality(S) -> S] : \A a, b \in 1..Cardinality(S) : q[a] = q[b] => a = b}

\* the "for" of StreamManager.stop from the sessions todo on (lines 54-55): each
\* stop_stream runs to its end when the task of the session is done; wait: the
\* session at whose task the call suspends
RECURSIVE stop_sessions(_, _, _)
stop_sessions(m, todo, ws) ==
    IF m.err # "none" \/ todo = <<>> THEN [m |-> m, wait |-> "none", todo |-> <<>>]
    ELSE LET s == Head(todo) IN
         IF m.streams[s] = 0
         THEN [m |-> [m EXCEPT !.err = "ValueError"], wait |-> "none", todo |-> <<>>]
         ELSE IF m.stream_tasks[s] # 0 /\ m.task[m.stream_tasks[s]].pc # "done"
              THEN [m |-> m, wait |-> s, todo |-> Tail(todo)]
              ELSE stop_sessions(stop_finish(m, s, m.stream_tasks[s] # 0, ws), Tail(todo), ws)

\* StreamManager.stop from its loop on: an error of a stop_stream leaves stop(); after
\* the last session frame_bus.stop() is awaited (line 57)
manager_stop_go(m, todo, ws) ==
    LET w == stop_sessions(m, todo, ws) IN
    /\ streams' = w.m.streams
    /\ stream_tasks' = w.m.stream_tasks
    /\ rd' = w.m.rd
    /\ IF w.m.err # "none"
       THEN /\ task' = w.m.task
            /\ waiters' = ws
            /\ mstop' = [NoMgrStop EXCEPT !.st = "raised", !.err = w.m.err]
            /\ UNCHANGED busVars
            /\ UNCHANGED bstop
       ELSE IF w.wait # "none"
       THEN LET t == w.m.stream_tasks[w.wait] IN
            /\ Len(ws) < lim.calls
            /\ task' = [w.m.task EXCEPT ![t].cancel = TRUE]
            /\ waiters' = Append(ws, [kind |-> "mstop", session_id |-> w.wait,
                                      cfg |-> CfgWebcam, on |-> t])
            /\ mstop' = [NoMgrStop EXCEPT !.st = "waiting", !.todo = w.todo]
            /\ UNCHANGED busVars
            /\ UNCHANGED bstop
       ELSE /\ task' = w.m.task
            /\ waiters' = ws
            /\ bus_stop
            /\ mstop' = [NoMgrStop EXCEPT
                            !.st = IF bstop'.st = "returned" THEN "returned" ELSE "bus"]

\* StreamManager.stop; order: list(self.streams.keys())
manager_stop(order) ==
    /\ mstop.st \notin {"waiting", "bus"}
    /\ order \in KeyOrders({s \in Sessions : streams[s] # 0})
    /\ is_running' = FALSE
    /\ manager_stop_go(Mgr, order, waiters)
    /\ ret' = NoRet
    /\ UNCHANGED total_frames_processed

\* the task the stop_stream of StreamManager.stop awaited is done
manager_stop_resume(k) ==
    /\ k \in 1..Len(waiters)
    /\ waiters[k].kind = "mstop"
    /\ task[waiters[k].on].pc = "done"
    /\ \A j \in 1..(k - 1) : waiters[j].on # waiters[k].on
    /\ LET w == waiters[k]
           ws == [j \in 1..(Len(waiters) - 1) |-> IF j < k THEN waiters[j] ELSE waiters[j + 1]]
       IN manager_stop_go(stop_finish(Mgr, w.session_id, TRUE, ws), mstop.todo, ws)
    /\ ret' = NoRet
    /\ UNCHANGED <<is_running, total_frames_processed>>

\* the task the frame_bus.stop() of StreamManager.stop awaited is done
manager_stop_bus_resume ==
    /\ mstop.st = "bus"
    /\ bus_stop_resume
    /\ mstop' = [NoMgrStop EXCEPT
                    !.st = IF bstop'.st = "waiting" THEN "bus" ELSE bstop'.st,
                    !.err = IF bstop'.st = "raised" THEN "RuntimeError" ELSE "none"]
    /\ ret' = NoRet
    /\ UNCHANGED mgrVars

\* StreamManager.get_stream_metrics (the counters of it)
get_stream_metrics(s) ==
    IF streams[s] = 0 THEN NoMetrics
    ELSE [found |-> TRUE, dropped_frames |-> rd[streams[s]].dropped_frames,
          total_frames |-> rd[streams[s]].total_frames]

\* StreamManager.get_active_stream_count
get_active_stream_count == Cardinality({s \in Sessions : streams[s] # 0})

\* the metrics endpoint: get_stream_metrics(s) and get_active_stream_count are called
\* and return; neither has an await nor an assignment
metrics_call(s) ==
    /\ ret' = [NoRet EXCEPT !.kind = "metrics", !.session_id = s,
                            !.result = IF get_stream_metrics(s).found THEN "ok" ELSE "none",
                            !.metrics = get_stream_metrics(s),
                            !.count = get_active_stream_count]
    /\ UNCHANGED mgrVars
    /\ UNCHANGED busVars

\* steps of the capture loops and of the distribution tasks
LoopStep ==
    \/ \E i \in Insts : stream_loop_begin(i)
    \/ \E i \in Insts, opened \in BOOLEAN : stream_loop_connected(i, opened)
    \/ \E i \in Insts, ok \in BOOLEAN : stream_loop_read(i, ok)
    \/ \E i \in Insts : stream_loop_wake(i)
    \/ \E i \in Insts : stream_loop_reconnect(i)
    \/ \E i \in Insts, opened \in BOOLEAN : stream_loop_reconnected(i, opened)
    \/ \E i \in Insts : stream_loop_cancelled(i)

BusStep ==
    \/ \E b \in BusIds : process_begin(b)
    \/ \E b \in BusIds, encoded \in BOOLEAN : process_wait(b, encoded)
    \/ \E b \in BusIds, ok \in BOOLEAN : process_sent(b, ok)

\* history of the frame numbers: a loop gave its next frame_id to a frame in this step
\* (a loop numbers its frames 1, 2, ...: a number that is not above hi was given before
\* to a frame of another loop of the session)
HistIssued ==
    issued' = [s \in Sessions |->
                  LET new == {task'[i].frame_id : i \in {j \in Insts :
                                 /\ rd[j].session_id = s
                                 /\ task'[j].frame_id = task[j].frame_id + 1}} IN
                  IF new = {} THEN issued[s]
                  ELSE [hi |-> IF \E n \in new : n > issued[s].hi
                               THEN issued[s].hi + 1 ELSE issued[s].hi,
                        dup |-> issued[s].dup \/ \E n \in new : n <= issued[s].hi]]

\* history of the connect attempts: a loop entered the executor call of _connect
HistConnects ==
    connects' = [i \in Insts |->
                    IF task'[i].pc \in {"connecting", "reconnecting"} /\ task'[i].pc # task[i].pc
                    THEN connects[i] + 1 ELSE connects[i]]

Next ==
    \/ start /\ UNCHANGED <<histVars, lim, extVars, obsVars>>
    \/ \E s \in lim.sessions, cfg \in Configs :
          start_stream(s, cfg) /\ UNCHANGED <<hist, connects, issued, lim, extVars, obsVars>>
    \/ \E s \in lim.sessions : stop_stream(s) /\ UNCHANGED <<hist, connects, issued, lim, extVars, obsVars>>
    \/ \E k \in 1..MgrCalls : resume(k) /\ UNCHANGED <<hist, connects, issued, lim, extVars, obsVars>>
    \/ LoopStep /\ HistIssued /\ ret' = NoRet /\ UNCHANGED <<hist, connects, lim, extVars, obsVars>>
    \/ BusStep /\ ret' = NoRet /\ UNCHANGED <<mgrVars, hist, connects, issued, lim, extVars, obsVars>>

Spec == Init /\ [][Next]_vars

\* the same with a control plane that issues a call when the one before has returned
NextSeq ==
    \/ start /\ UNCHANGED <<histVars, lim, extVars, obsVars>>
    \/ \E s \in lim.sessions, cfg \in Configs :
          waiters = <<>> /\ start_stream(s, cfg) /\ UNCHANGED <<hist, connects, issued, lim, extVars, obsVars>>
    \/ \E s \in lim.sessions :
          waiters = <<>> /\ stop_stream(s) /\ UNCHANGED <<hist, connects, issued, lim, extVars, obsVars>>
    \/ \E k \in 1..MgrCalls : resume(k) /\ UNCHANGED <<hist, connects, issued, lim, extVars, obsVars>>
    \/ LoopStep /\ HistIssued /\ ret' = NoRet /\ UNCHANGED <<hist, connects, lim, extVars, obsVars>>
    \/ BusStep /\ ret' = NoRet /\ UNCHANGED <<mgrVars, hist, connects, issued, lim, extVars, obsVars>>

SpecSeq == Init /\ [][NextSeq]_vars

\* history of the evictions: a publish of this step found the queue of the session full
\* and dropped its oldest frame
HistEvicted ==
    evicted' = [s \in Sessions |->
                   \/ evicted[s]
                   \/ /\ frame_queues[s] # 0
                      /\ queue_full(qbuf[frame_queues[s]])
                      /\ qbuf'[frame_queues[s]] # qbuf[frame_queues[s]]]

\* history of the reconnects: the connect of a reconnect attempt returned without
\* opening the source (one more failure in a row), or a connect opened it (none)
HistStreak ==
    streak' = [i \in Insts |->
                  IF rd'[i].opens # rd[i].opens THEN 0
                  ELSE IF task[i].pc = "reconnecting" /\ task'[i].pc # "reconnecting"
                       THEN streak[i] + 1
                       ELSE streak[i]]

\* one session started once: its reader and capture loop, and the bus behind it
NextReader ==
    \/ start /\ UNCHANGED <<histVars, lim, extVars, obsVars>>
    \/ \E s \in lim.sessions, cfg \in {CfgWebcam, CfgRtsp} :
          streams[s] = 0 /\ start_stream(s, cfg) /\ UNCHANGED <<hist, connects, issued, lim, extVars, obsVars>>
    \/ LoopStep /\ HistConnects /\ HistStreak /\ HistEvicted /\ ret' = NoRet
                /\ UNCHANGED <<hist, issued, lim, published, fpsVars, bstop, mstop, apiVars>>
                /\ UNCHANGED <<sink, stray, unsub>>
    \/ BusStep /\ ret' = NoRet /\ UNCHANGED <<mgrVars, hist, connects, issued, lim, extVars, obsVars>>

SpecReader == InitReader /\ [][NextReader]_vars

\* the run of SpecReader with the metrics read at any moment, for the session of the
\* run and for a session that was never started
NextMetrics ==
    \/ NextReader
    \/ \E s \in Sessions :
          metrics_call(s) /\ UNCHANGED <<hist, connects, issued, lim, extVars, obsVars>>

SpecMetrics == InitReader /\ [][NextMetrics]_vars

\* history of the sink: the frames handed to it, and whether one was handed over twice
HistSinkOnce ==
    sink' = [s \in Sessions |->
                LET B == {b \in BusIds : /\ ptask[b].session_id = s
                                         /\ ptask[b].pc = "waiting" /\ ptask'[b].pc = "sending"} IN
                IF B = {} THEN sink[s]
                ELSE LET n == ptask'[CHOOSE b \in B : TRUE].cur.frame_id IN
                     [sink[s] EXCEPT !.sent = @ \cup {n}, !.twice = @ \/ n \in sink[s].sent]]

\* history of the sink: the frame_id of the last post that failed
HistSinkResult(b, ok) ==
    sink' = [sink EXCEPT ![ptask[b].session_id].failed = IF ok THEN @ ELSE ptask[b].cur.frame_id]

\* the frame bus on its own, driven by a caller that publishes
NextBus ==
    \/ bus_start /\ UNCHANGED <<mgrVars, histVars, lim, extVars, obsVars>>
    \/ \E s \in lim.sessions : bus_publish(s) /\ UNCHANGED <<mgrVars, connects, issued, ret, lim, extVars, obsVars>>
    \/ \E b \in BusIds : process_begin(b) /\ HistGets
           /\ UNCHANGED <<mgrVars, connects, issued, ret, lim, extVars, obsVars>>
    \/ \E b \in BusIds, encoded \in BOOLEAN : process_wait(b, encoded) /\ HistGets /\ HistSinkOnce
           /\ UNCHANGED <<mgrVars, connects, issued, ret, lim, extVars, evicted, stray, unsub>>
    \/ \E b \in BusIds, ok \in BOOLEAN : process_sent(b, ok) /\ HistGets /\ HistSinkResult(b, ok)
           /\ UNCHANGED <<mgrVars, connects, issued, ret, lim, extVars, evicted, stray, unsub>>

SpecBus == InitBus /\ [][NextBus]_vars

\* history of the sink: the frame_id a distribution task hands to the sink in this step
\* (it took the frame from its queue and posts it), and whether it is below the one
\* handed over before for the session
HistSinkOrder ==
    sink' = [s \in Sessions |->
                LET B == {b \in BusIds : /\ ptask[b].session_id = s
                                         /\ ptask[b].pc = "waiting" /\ ptask'[b].pc = "sending"} IN
                IF B = {} THEN sink[s]
                ELSE LET n == ptask'[CHOOSE b \in B : TRUE].cur.frame_id IN
                     [sink[s] EXCEPT !.last = n, !.down = @ \/ n < sink[s].last]]

\* a task cancelled in "await loop.run_in_executor(None, cv2.VideoCapture, url)" ends,
\* and the call goes on in its worker thread with nobody to take its result
HistStray ==
    stray' = [s \in Sessions |->
                 IF \E i \in Insts : /\ rd[i].session_id = s /\ task[i].cancel
                                      /\ task[i].pc \in {"connecting", "reconnecting"}
                                      /\ task'[i].pc \in {"done", "none"}
                 THEN "opening" ELSE stray[s]]

\* the abandoned cv2.VideoCapture(url) returned in its thread: the capture it made holds
\* the device or socket when it opened
worker_opened(s, opened) ==
    /\ stray[s] = "opening"
    /\ stray' = [stray EXCEPT ![s] = IF opened THEN "open" ELSE "none"]

\* the abandoned capture is collected with the future that held it, which releases it
worker_dropped(s) ==
    /\ stray[s] = "open"
    /\ stray' = [stray EXCEPT ![s] = "none"]

\* the control plane with the worker threads of the connects watched
NextCancel ==
    \/ start /\ UNCHANGED <<histVars, lim, extVars, obsVars>>
    \/ \E s \in lim.sessions, cfg \in Configs :
          waiters = <<>> /\ start_stream(s, cfg) /\ UNCHANGED <<hist, connects, issued, lim, extVars, obsVars>>
    \/ \E s \in lim.sessions :
          waiters = <<>> /\ stop_stream(s) /\ UNCHANGED <<hist, connects, issued, lim, extVars, obsVars>>
    \/ \E k \in 1..MgrCalls : resume(k) /\ UNCHANGED <<hist, connects, issued, lim, extVars, obsVars>>
    \/ LoopStep /\ HistStray /\ ret' = NoRet
                /\ UNCHANGED <<hist, connects, issued, lim, extVars, sink, evicted, unsub>>
    \/ BusStep /\ ret' = NoRet /\ UNCHANGED <<mgrVars, hist, connects, issued, lim, extVars, obsVars>>
    \/ \E s \in lim.sessions, opened \in BOOLEAN : worker_opened(s, opened)
          /\ UNCHANGED <<mgrVars, busVars, histVars, lim, extVars, sink, evicted, unsub>>
    \/ \E s \in lim.sessions : worker_dropped(s)
          /\ UNCHANGED <<mgrVars, busVars, histVars, lim, extVars, sink, evicted, unsub>>

SpecCancel == Init /\ [][NextCancel]_vars

\* the control plane, the capture loops and the bus with the sink watched
NextSink ==
    \/ start /\ UNCHANGED <<histVars, lim, extVars, obsVars>>
    \/ \E s \in lim.sessions, cfg \in Configs :
          waiters = <<>> /\ start_stream(s, cfg) /\ UNCHANGED <<hist, connects, issued, lim, extVars, obsVars>>
    \/ \E s \in lim.sessions :
          waiters = <<>> /\ stop_stream(s) /\ UNCHANGED <<hist, connects, issued, lim, extVars, obsVars>>
    \/ \E k \in 1..MgrCalls : resume(k) /\ UNCHANGED <<hist, connects, issued, lim, extVars, obsVars>>
    \/ LoopStep /\ ret' = NoRet /\ UNCHANGED <<hist, connects, issued, lim, extVars, obsVars>>
    \/ BusStep /\ HistSinkOrder /\ ret' = NoRet
               /\ UNCHANGED <<mgrVars, hist, connects, issued, lim, extVars, evicted, stray, unsub>>

SpecSink == InitSink /\ [][NextSink]_vars

\* the ready queue of the event loop is first-in first-out: the wake-up of a
\* suspended unsubscribe is queued when the task it awaits ends, so a distribution
\* task created after that takes its first step behind the wake-up
WakeUpFirst ==
    \A s \in Sessions, b \in BusIds :
        (/\ unsub[s].st = "waiting" /\ ptask[unsub[s].on].pc = "done"
         /\ b > unsub[s].on /\ ptask[b].pc = "init") => ptask'[b].pc = "init"

\* the frame bus with a caller that publishes and unsubscribes
NextUnsub ==
    \/ bus_start /\ UNCHANGED <<mgrVars, histVars, lim, extVars, obsVars>>
    \/ \E s \in lim.sessions : bus_publish(s) /\ HistUnsubPublish(s)
           /\ UNCHANGED <<mgrVars, connects, issued, ret, lim, extVars, sink, evicted, stray>>
    \/ BusStep /\ WakeUpFirst /\ UNCHANGED <<mgrVars, histVars, lim, extVars, obsVars>>
    \/ \E b \in BusIds : process_cancelled(b) /\ UNCHANGED <<mgrVars, histVars, lim, extVars, obsVars>>
    \/ \E s \in lim.sessions : unsubscribe(s)
           /\ UNCHANGED <<mgrVars, histVars, lim, extVars, sink, evicted, stray>>
    \/ \E s \in lim.sessions : unsubscribe_resume(s)
           /\ UNCHANGED <<mgrVars, histVars, lim, extVars, sink, evicted, stray>>

SpecUnsub == InitBus /\ [][NextUnsub]_vars

\* the same with unsubscribe calls for a session that overlap
NextOverlap ==
    \/ NextUnsub
    \/ \E s \in lim.sessions : unsubscribe_again(s)
           /\ UNCHANGED <<mgrVars, histVars, lim, extVars, sink, evicted, stray>>

SpecOverlap == InitBus /\ [][NextOverlap]_vars

\* the bus of two sessions, started once and stopped once, with a caller that
\* publishes before, during and after FrameBus.stop
NextStop ==
    \/ bstop.st = "none" /\ bus_start /\ UNCHANGED <<mgrVars, histVars, lim, extVars, obsVars>>
    \/ \E s \in lim.sessions : bus_publish(s)
           /\ UNCHANGED <<mgrVars, connects, issued, ret, lim, extVars, obsVars>>
    \/ BusStep /\ UNCHANGED <<mgrVars, histVars, lim, extVars, obsVars>>
    \/ \E b \in BusIds : process_cancelled(b) /\ UNCHANGED <<mgrVars, histVars, lim, extVars, obsVars>>
    \/ bstop.st = "none" /\ bus_stop
           /\ UNCHANGED <<mgrVars, histVars, lim, moreVars, published, fpsVars, obsVars>>
    \/ bus_stop_resume /\ UNCHANGED <<mgrVars, histVars, lim, moreVars, published, fpsVars, obsVars>>

\* the event loop runs every task that can take a step, and the timeouts of the
\* queue wait (1 s) and of the post (5 s) end these two waits
FairStop ==
    \A b \in BusIds :
        /\ WF_busVars(process_begin(b))
        /\ WF_busVars(\E encoded \in BOOLEAN : process_wait(b, encoded))
        /\ WF_busVars(\E ok \in BOOLEAN : process_sent(b, ok))
        /\ WF_busVars(process_cancelled(b))

SpecStop == InitStop /\ [][NextStop]_vars /\ FairStop

\* two sessions under a control plane that issues a call when the one before returned:
\* session "s1" is started, restarted and stopped at will, session "s2" is started once
\* and runs beside it
\* history of the frames handed to the bus: a loop gave a frame its frame_id and
\* called publish_frame
HistPublished ==
    published' = published +
        Cardinality({i \in Insts : task'[i].frame_id = task[i].frame_id + 1})

NextTwo ==
    \/ start /\ UNCHANGED <<histVars, lim, extVars, obsVars>>
    \/ \E s \in lim.sessions, cfg \in Configs :
          /\ waiters = <<>>
          /\ s = "s2" => (streams[s] = 0 /\ cfg = CfgWebcam)
          /\ start_stream(s, cfg) /\ UNCHANGED <<hist, connects, issued, lim, extVars, obsVars>>
    \/ \E s \in lim.sessions \ {"s2"} :
          waiters = <<>> /\ stop_stream(s) /\ UNCHANGED <<hist, connects, issued, lim, extVars, obsVars>>
    \/ \E k \in 1..MgrCalls : resume(k) /\ UNCHANGED <<hist, connects, issued, lim, extVars, obsVars>>
    \/ LoopStep /\ HistPublished /\ ret' = NoRet
                /\ UNCHANGED <<hist, connects, issued, lim, moreVars, fpsVars, bstop, obsVars>>
    \/ BusStep /\ ret' = NoRet /\ UNCHANGED <<mgrVars, hist, connects, issued, lim, extVars, obsVars>>

SpecTwo == InitTwo /\ [][NextTwo]_vars

\* a frame is registered at the current time
fps_tick ==
    /\ ticks.n < MaxTicks
    /\ ticks.n > 0 => ticks.last < clock
    /\ frame_times' = tick(frame_times, clock)
    /\ ticks' = [n |-> ticks.n + 1, last |-> clock,
                 regular |-> ticks.regular /\ (ticks.n > 0 => clock - ticks.last = TickGap)]
    /\ UNCHANGED clock

\* time passes
clock_advance ==
    /\ clock + TickGap <= MaxClock
    /\ clock' = clock + TickGap
    /\ UNCHANGED <<frame_times, ticks>>

\* one FPSCounter and the clock it reads
NextFps ==
    \/ fps_tick /\ UNCHANGED <<mgrVars, busVars, histVars, obsVars, lim, moreVars, published, bstop>>
    \/ clock_advance /\ UNCHANGED <<mgrVars, busVars, histVars, obsVars, lim, moreVars, published, bstop>>

SpecFps == InitBus /\ [][NextFps]_vars

\* two sessions with webcam sources and calls issued one after the other; s2 is
\* started once and never stopped
NextBlocked ==
    \/ start /\ UNCHANGED <<histVars, lim, extVars, obsVars>>
    \/ \E s \in lim.sessions :
          /\ waiters = <<>>
          /\ s = "s2" => streams[s] = 0
          /\ start_stream(s, CfgWebcam)
          /\ UNCHANGED <<hist, connects, issued, lim, extVars, obsVars>>
    \/ \E s \in lim.sessions \ {"s2"} :
          waiters = <<>> /\ stop_stream(s) /\ UNCHANGED <<hist, connects, issued, lim, extVars, obsVars>>
    \/ \E k \in 1..MgrCalls : resume(k) /\ UNCHANGED <<hist, connects, issued, lim, extVars, obsVars>>
    \/ LoopStep /\ ret' = NoRet /\ UNCHANGED <<hist, connects, issued, lim, extVars, obsVars>>
    \/ BusStep /\ ret' = NoRet /\ UNCHANGED <<mgrVars, hist, connects, issued, lim, extVars, obsVars>>

SpecBlocked == InitBlocked /\ [][NextBlocked]_vars

\* two sessions with webcam sources, started one after the other until the service
\* is shut down by StreamManager.stop; the first is restarted and stopped by
\* stop_stream at any moment, also while another call or stop() is suspended; no
\* start_stream is suspended when stop() is called
NextShut ==
    \/ mstop.st = "none" /\ start /\ UNCHANGED <<histVars, lim, extVars, obsVars>>
    \/ \E s \in lim.sessions :
          /\ waiters = <<>>
          /\ (s = "s2" => streams[s] = 0)
          /\ start_stream(s, CfgWebcam)
          /\ UNCHANGED <<hist, connects, issued, lim, extVars, obsVars>>
    \/ \E s \in lim.sessions \ {"s2"} :
          /\ is_running \/ mstop.st # "none"
          /\ stop_stream_call(s)
          /\ UNCHANGED <<hist, connects, issued, lim, extVars, obsVars>>
    \/ \E k \in 1..ShutCalls :
          /\ k <= Len(waiters) /\ waiters[k].kind # "mstop"
          /\ resume(k)
          /\ UNCHANGED <<hist, connects, issued, lim, extVars, obsVars>>
    \/ \E order \in UNION {[1..n -> Sessions] : n \in 0..Cardinality(Sessions)} :
          /\ is_running /\ mstop.st = "none"
          /\ \A k \in 1..Len(waiters) : waiters[k].kind # "start"
          /\ manager_stop(order)
          /\ UNCHANGED <<hist, connects, issued, lim, published, fpsVars, apiVars, streak, obsVars>>
    \/ \E k \in 1..ShutCalls :
          manager_stop_resume(k)
          /\ UNCHANGED <<hist, connects, issued, lim, published, fpsVars, apiVars, streak, obsVars>>
    \/ manager_stop_bus_resume
          /\ UNCHANGED <<hist, connects, issued, lim, published, fpsVars, apiVars, streak, obsVars>>
    \/ LoopStep /\ ret' = NoRet /\ UNCHANGED <<hist, connects, issued, lim, extVars, obsVars>>
    \/ BusStep /\ ret' = NoRet /\ UNCHANGED <<mgrVars, hist, connects, issued, lim, extVars, obsVars>>
    \/ \E b \in BusIds : process_cancelled(b) /\ ret' = NoRet
          /\ UNCHANGED <<mgrVars, hist, connects, issued, lim, extVars, obsVars>>

SpecShut == InitShut /\ [][NextShut]_vars

\* one session that is started only while it is not registered and no call is
\* suspended; stop_stream is called at any moment, so that the calls that overlap
\* are stop_stream calls
NextStops ==
    \/ start /\ UNCHANGED <<histVars, lim, extVars, obsVars>>
    \/ \E s \in lim.sessions, cfg \in {CfgWebcam, CfgRtsp} :
          /\ waiters = <<>> /\ streams[s] = 0
          /\ start_stream(s, cfg)
          /\ UNCHANGED <<hist, connects, issued, lim, extVars, obsVars>>
    \/ \E s \in lim.sessions :
          stop_stream(s) /\ UNCHANGED <<hist, connects, issued, lim, extVars, obsVars>>
    \/ \E k \in 1..ShutCalls :
          resume(k) /\ UNCHANGED <<hist, connects, issued, lim, extVars, obsVars>>
    \/ LoopStep /\ ret' = NoRet /\ UNCHANGED <<hist, connects, issued, lim, extVars, obsVars>>
    \/ BusStep /\ ret' = NoRet /\ UNCHANGED <<mgrVars, hist, connects, issued, lim, extVars, obsVars>>

SpecStops == InitStops /\ [][NextStops]_vars

\* ------------------------------------------------------------- SessionManager
\* (api/models.py) the three dicts of the control plane; a configuration and a
\* websocket are 1 when the key is there, a status is its camera_status
Statuses == {"connecting", "connected", "error"}

\* SessionManager.create_session
create_session(s) ==
    /\ total_sessions_created < MaxCreated
    /\ sessions' = [sessions EXCEPT ![s] = 1]
    /\ session_status' = [session_status EXCEPT ![s] = "connecting"]
    /\ total_sessions_created' = total_sessions_created + 1
    /\ api_ret' = [kind |-> "create", session_id |-> s, result |-> "ok"]
    /\ UNCHANGED <<websockets, deleting>>

\* faulty variant: the status is stored for an id without a configuration too
update_session_status_any(s, status) ==
    /\ session_status' = [session_status EXCEPT ![s] = status]
    /\ api_ret' = [kind |-> "update", session_id |-> s,
                   result |-> IF sessions[s] = 0 THEN "unknown" ELSE "ok"]
    /\ UNCHANGED <<sessions, websockets, total_sessions_created, deleting>>

\* SessionManager.update_session_status
update_session_status(s, status) ==
    /\ IF sessions[s] = 0
       THEN UNCHANGED session_status
       ELSE session_status' = [session_status EXCEPT ![s] = status]
    /\ api_ret' = [kind |-> "update", session_id |-> s,
                   result |-> IF sessions[s] = 0 THEN "unknown" ELSE "ok"]
    /\ UNCHANGED <<sessions, websockets, total_sessions_created, deleting>>

\* SessionManager.delete_session from "del self.websockets[session_id]" on (lines
\* 136-143); had_ws: the body of "if session_id in self.websockets" was entered
delete_finish(s, had_ws) ==
    IF had_ws /\ websockets[s] = 0
    THEN /\ api_ret' = [kind |-> "delete", session_id |-> s, result |-> "KeyError"]
         /\ UNCHANGED <<sessions, session_status, websockets>>
    ELSE /\ websockets' = [websockets EXCEPT ![s] = 0]
         /\ IF sessions[s] = 0
            THEN /\ api_ret' = [kind |-> "delete", session_id |-> s, result |-> "KeyError"]
                 /\ UNCHANGED <<sessions, session_status>>
            ELSE /\ sessions' = [sessions EXCEPT ![s] = 0]
                 /\ session_status' = [session_status EXCEPT ![s] = "none"]
                 /\ api_ret' = [kind |-> "delete", session_id |-> s, result |-> "True"]

\* SessionManager.delete_session: it suspends in the close() of the websocket of the
\* session (one call per session at a time)
delete_session(s) ==
    /\ deleting[s].st = "none"
    /\ IF sessions[s] = 0
       THEN /\ api_ret' = [kind |-> "delete", session_id |-> s, result |-> "False"]
            /\ UNCHANGED <<sessions, session_status, websockets, deleting>>
       ELSE IF websockets[s] # 0
            THEN /\ deleting' = [deleting EXCEPT ![s] = [st |-> "closing", ws |-> websockets[s]]]
                 /\ api_ret' = NoApiRet
                 /\ UNCHANGED <<sessions, session_status, websockets>>
            ELSE /\ delete_finish(s, FALSE)
                 /\ UNCHANGED deleting
    /\ UNCHANGED total_sessions_created

\* the close() returned or raised, which "except Exception" logs: the call goes on
delete_resume(s) ==
    /\ deleting[s].st = "closing"
    /\ delete_finish(s, TRUE)
    /\ deleting' = [deleting EXCEPT ![s] = NoDelete]
    /\ UNCHANGED total_sessions_created

\* websocket_endpoint (api/main.py) up to its receive loop: a client connects for a
\* known session and is registered (one connection per session at a time)
ws_connect(s) ==
    /\ sessions[s] # 0 /\ websockets[s] = 0
    /\ websockets' = [websockets EXCEPT ![s] = 1]
    /\ api_ret' = NoApiRet
    /\ UNCHANGED <<sessions, session_status, total_sessions_created, deleting>>

\* websocket_endpoint: receive_text raised (the peer is gone, or the socket was
\* closed): the handler calls unregister_websocket
ws_disconnect(s) ==
    /\ websockets[s] # 0
    /\ websockets' = [websockets EXCEPT ![s] = 0]
    /\ api_ret' = NoApiRet
    /\ UNCHANGED <<sessions, session_status, total_sessions_created, deleting>>

restVars == <<mgrVars, busVars, histVars, obsVars, lim, published, fpsVars, bstop, mstop, streak>>

\* the control plane: the routes call the SessionManager, clients open and lose
\* their websockets at any moment
NextApi ==
    \/ \E s \in lim.sessions : create_session(s) /\ UNCHANGED restVars
    \/ \E s \in lim.sessions, status \in Statuses :
          update_session_status(s, status) /\ UNCHANGED restVars
    \/ \E s \in lim.sessions : delete_session(s) /\ UNCHANGED restVars
    \/ \E s \in lim.sessions : delete_resume(s) /\ UNCHANGED restVars
    \/ \E s \in lim.sessions : ws_connect(s) /\ UNCHANGED restVars
    \/ \E s \in lim.sessions : ws_disconnect(s) /\ UNCHANGED restVars

SpecApi == InitApi /\ [][NextApi]_vars

\* ------------------------------------------------------------- properties
LastK(q, k) == SubSeq(q, Len(q) - k + 1, Len(q))
Min(a, b) == IF a < b THEN a ELSE b
LoopsOf(s) == {i \in Insts : rd[i].session_id = s /\ Alive(i)}
ProcsOf(s) == {b \in BusIds : ptask[b].session_id = s /\ ptask[b].pc \notin {"none", "done"}}

\* C1 (SpecSeq): after stop_stream(id) has returned without an error, the registry has no
\* reader and no capture task for id, no capture task of id is alive, and the bus has no
\* queue and no live distribution task for id.
C1_StopReleasesAll ==
    (ret.kind = "stop" /\ ret.result = "ok") =>
        LET s == ret.session_id IN
        /\ streams[s] = 0 /\ stream_tasks[s] = 0 /\ LoopsOf(s) = {}
        /\ frame_queues[s] = 0 /\ processing_tasks[s] = 0 /\ ProcsOf(s) = {}

\* C2 (SpecBus): while no frame has been taken from a queue, after n publish calls the
\* queue holds the last min(n, max_queue_size) published frames, in publish order.
C2_LatestFramesKept ==
    \A b \in BusIds :
        (hist[b].n >= 1 /\ hist[b].gets = 0) =>
            qbuf[b] = LastK(hist[b].pubs, Min(hist[b].n, max_queue_size))

C2_Witness ==
    \E b \in BusIds : /\ hist[b].n = 3 /\ hist[b].gets = 0
                      /\ qbuf[b] = <<Frame(2, 0), Frame(3, 0)>>

\* C3 (SpecBus): a queue never holds more than max_queue_size frames, and when the last
\* operation on a queue was publish(f), f is the newest frame of the queue.
C3_BoundedNewestLast ==
    \A b \in BusIds :
        /\ Len(qbuf[b]) <= max_queue_size
        /\ hist[b].last = "publish" =>
              /\ qbuf[b] # <<>>
              /\ qbuf[b][Len(qbuf[b])] = hist[b].pubs[Len(hist[b].pubs)]

C3_Witness ==
    \E b \in BusIds : /\ hist[b].last = "publish" /\ hist[b].gets = 1 /\ hist[b].n >= 4
                      /\ Len(qbuf[b]) = max_queue_size
                      /\ ptask[b].pc = "sending"

\* C4 (SpecReader): whenever a capture loop has a frame to publish (its read is about to
\* return one), the step that publishes it can be taken, whatever the fill level of the
\* queue and whatever the distribution task is doing.
C4_PublishNeverWaits ==
    \A i \in Insts :
        ( /\ task[i].pc = "reading" /\ ~task[i].cancel
          /\ task[i].frame_id < lim.frames /\ total_frames_processed < lim.total
          /\ BusRoom(rd[i].session_id) )
        => ENABLED stream_loop_read(i, TRUE)

C4_Witness ==
    \E i \in Insts, b \in BusIds :
        /\ ptask[b].pc = "sending" /\ ptask[b].cur = Frame(1, i)
        /\ qbuf[b] = <<Frame(3, i), Frame(4, i)>>
        /\ task[i].pc = "pace"

\* C5 (Spec): a session never has two live capture tasks, nor two readers with an open
\* connection.
C5_OneLoopPerSession ==
    \A s \in Sessions :
        /\ Cardinality(LoopsOf(s)) <= 1
        /\ Cardinality({i \in Insts : rd[i].session_id = s /\ rd[i].capture = "open"}) <= 1

\* C6 (SpecSeq): when start_stream(id, d2) returns for an id that was registered, id has
\* one registry entry, its reader is built from d2, its task is the one live capture
\* task of id, and the reader registered before is stopped with its task done.
C6_ReplaceIsStopThenStart ==
    (ret.kind = "start" /\ ret.result = "ok" /\ ret.replaced) =>
        LET s == ret.session_id
            i == ret.inst IN
        /\ streams[s] = i /\ stream_tasks[s] = i
        /\ rd[i] = NewReader(s, ret.cfg)
        /\ task[i].pc = "init"
        /\ LoopsOf(s) = {i}
        /\ \A j \in Insts \ {i} : rd[j].session_id = s => rd[j].capture = "none"
        /\ ret.old_stopped

C6_Witness ==
    /\ ret.kind = "start" /\ ret.result = "ok" /\ ret.replaced
    /\ ret.old_cfg = CfgWebcam /\ ret.cfg = CfgRtsp
    /\ streams[ret.session_id] = ret.inst

\* reader i is out of attempts: max_reconnect_attempts reconnects in a row have failed
Exhausted(i) ==
    /\ task[i].pc \notin {"none", "reconnect_sleep", "reconnecting"}
    /\ Failed(rd[i])

\* C7 (SpecReader): the attempt counter of a reader never exceeds max_reconnect_attempts,
\* and once the reader is out of attempts it stays so: no step makes a connect attempt or
\* reads a frame.
C7_ReconnectBounded ==
    /\ [](\A i \in Insts : rd[i].reconnect_attempts <= rd[i].max_reconnect_attempts)
    /\ [][\A i \in Insts : Exhausted(i) =>
             /\ Exhausted(i)'
             /\ connects'[i] = connects[i]
             /\ rd'[i].total_frames = rd[i].total_frames
             /\ task'[i].pc \in {"sleep_disc", "done"}]_vars

C7_Witness ==
    \E i \in Insts : /\ Exhausted(i) /\ task[i].pc = "sleep_disc"
                     /\ rd[i].reconnect_attempts = RdReconnect
                     /\ connects[i] = RdReconnect + 1 /\ rd[i].opens = 1

\* C8 (SpecReader): a reader whose source has never opened and whose loop has ended has
\* made exactly max_reconnect_attempts connect attempts and is out of attempts.
C8_UnreachableSourceFails ==
    \A i \in Insts :
        (task[i].pc = "done" /\ ~task[i].cancel /\ rd[i].opens = 0 /\ connects[i] >= 1) =>
            /\ connects[i] = rd[i].max_reconnect_attempts
            /\ Exhausted(i)

\* C9 (SpecReader): the frame_id of a loop equals the number of successful reads of its
\* reader, and the step of the k-th successful read puts the frame numbered k into the
\* queue as its newest frame.
C9_SequenceCountsReads ==
    /\ [](\A i \in Insts : task[i].frame_id = rd[i].total_frames)
    /\ [][\A i \in Insts :
             rd'[i].total_frames # rd[i].total_frames =>
                LET q == qbuf'[frame_queues'[rd[i].session_id]] IN
                /\ rd'[i].total_frames = rd[i].total_frames + 1
                /\ q[Len(q)] = Frame(rd'[i].total_frames, i)]_vars

C9_Witness ==
    \E i \in Insts : /\ rd[i].total_frames = 3 /\ task[i].frame_id = 3
                     /\ rd[i].opens = 2 /\ task[i].pc = "pace"

\* C10 (SpecSeq): no frame of a session is given a frame_id that another frame of the
\* session was given before.
C10_SequenceNeverReused == \A s \in Sessions : ~issued[s].dup

\* C11 (SpecSink): the frame_ids handed to the sink for a session never go down, over
\* any run of start_stream, stop_stream, publishes and deliveries.
C11_SinkOrderNonDecreasing == \A s \in Sessions : ~sink[s].down

\* C12 (SpecSeq): stop_stream returns without an error only for a session it found in
\* the registry, and a stop_stream that raises the unknown-session error (ValueError)
\* leaves the registry, the readers, the capture tasks and the bus as they were.
C12_StopUnknownFails ==
    /\ []((ret.kind = "stop" /\ ret.result = "ok") => ret.replaced)
    /\ [][(ret'.kind = "stop" /\ ret'.result = "ValueError") =>
             /\ streams[ret'.session_id] = 0
             /\ UNCHANGED <<streams, stream_tasks, rd, task, is_running>>
             /\ UNCHANGED <<frame_queues, processing_tasks, qbuf, ptask>>]_vars

C12_Witness ==
    /\ ret.kind = "stop" /\ ret.result = "ValueError" /\ streams[ret.session_id] = 0
    /\ frame_queues[ret.session_id] # 0
    /\ qbuf[frame_queues[ret.session_id]] # <<>>

\* C13 (SpecSeq): start_stream returns without an error only for a webcam or for a
\* network camera with a url; for any other configuration it raises ValueError, and
\* then the session has no reader, no task entry and no live capture task.
C13_InvalidConfigRejected ==
    /\ ret.kind = "start" => ret.result \in {"ok", "ValueError"}
    /\ (ret.kind = "start" /\ ret.result = "ok") => ret.cfg \in {CfgWebcam, CfgRtsp}
    /\ (ret.kind = "start" /\ ret.result = "ValueError") =>
          /\ streams[ret.session_id] = 0 /\ stream_tasks[ret.session_id] = 0
          /\ LoopsOf(ret.session_id) = {}

C13_Witness ==
    /\ ret.kind = "start" /\ ret.result = "ValueError" /\ ret.replaced
    /\ streams[ret.session_id] = 0

\* C14 (SpecUnsub): from the return of unsubscribe(id) until the next publish for id, the
\* bus has no queue and no task entry for id and no distribution task of id is alive
\* (none is in a sink call, none can start one), also when frames of id were published
\* while unsubscribe awaited the task.
C14_UnsubscribeReleases ==
    \A s \in Sessions :
        unsub[s].st = "returned" =>
            /\ frame_queues[s] = 0 /\ processing_tasks[s] = 0
            /\ ProcsOf(s) = {}

C14_Witness ==
    \E s \in Sessions, b \in BusIds :
        /\ unsub[s].st = "returned" /\ unsub[s].pubs
        /\ ptask[b].session_id = s /\ ptask[b].outcome = "cancelled"
        /\ Len(qbuf[b]) = max_queue_size

\* C15 (SpecCancel): when stop_stream(id) has returned without an error, no reader of id
\* holds an open capture and no capture opened for id by a connect that was cancelled
\* in its worker thread is open.
C15_StopReleasesHandles ==
    (ret.kind = "stop" /\ ret.result = "ok") =>
        /\ \A i \in Insts : rd[i].session_id = ret.session_id => rd[i].capture # "open"
        /\ stray[ret.session_id] # "open"

\* C16 (SpecBus): a sink call that fails does not end the distribution task: the step
\* in which the post fails takes the task back to its wait for the next frame.
C16_SinkFailureNotFatal ==
    [][\A s \in Sessions :
          sink'[s].failed # sink[s].failed =>
              \E b \in BusIds : /\ ptask[b].session_id = s /\ ptask[b].pc = "sending"
                                /\ ptask'[b].pc = "waiting" /\ ptask'[b].outcome = "none"
                                /\ ptask'[b].queue = frame_queues'[s]]_vars

C16_Witness ==
    \E s \in Sessions, b \in BusIds :
        /\ sink[s].failed = 1 /\ ptask[b].session_id = s
        /\ ptask[b].pc = "sending" /\ ptask[b].cur.frame_id = 2

\* C17 (SpecBus): no frame is handed to the sink twice, and when a sink call ends,
\* failed or not, its frame is dropped: it is not put back into the queue.
C17_AtMostOnce ==
    /\ [](\A s \in Sessions : ~sink[s].twice)
    /\ [][\A b \in BusIds :
             (ptask[b].pc = "sending" /\ ptask'[b].pc # "sending") =>
                 /\ ptask'[b].cur = Nil
                 /\ qbuf' = qbuf]_vars

C17_Witness ==
    \E s \in Sessions, b \in BusIds :
        /\ sink[s].failed = 1 /\ sink[s].sent = {1, 3} /\ hist[b].n = 4
        /\ ptask[b].pc = "sending" /\ ptask[b].cur.frame_id = 3

\* C18 (SpecReader): once the bus has dropped a frame of a session, get_stream_metrics of
\* the session reports dropped_frames > 0.
C18_DroppedFramesReported ==
    \A s \in Sessions :
        (evicted[s] /\ get_stream_metrics(s).found) => get_stream_metrics(s).dropped_frames > 0

\* C20 (SpecReader): read_frame never raises to the loop. A loop ends with an error only
\* in the connect of reader.start(); a read in the worker ends with a frame or with the
\* reader marked disconnected and None returned (the loop sleeps); a read_frame that
\* finds no live connection makes one connect attempt and returns None whether the
\* attempt opened the source or not.
C20_ReadFrameNeverRaises ==
    /\ [](\A i \in Insts : task[i].outcome = "error" => (connects[i] = 1 /\ rd[i].opens = 0))
    /\ [][\A i \in Insts :
             /\ (task[i].pc = "reading" /\ ~task[i].cancel /\ task'[i].pc # "reading") =>
                   \/ /\ rd'[i].total_frames = rd[i].total_frames + 1
                      /\ task'[i].pc = "pace"
                   \/ /\ rd'[i].total_frames = rd[i].total_frames
                      /\ ~rd'[i].is_connected /\ task'[i].pc = "sleep_disc"
             /\ (task[i].pc = "reconnect_sleep" /\ ~task[i].cancel
                    /\ task'[i].pc # "reconnect_sleep") =>
                   /\ task'[i].pc = "reconnecting" /\ connects'[i] = connects[i] + 1
             /\ (task[i].pc = "reconnecting" /\ ~task[i].cancel
                    /\ task'[i].pc # "reconnecting") =>
                   /\ task'[i].pc = IF rd'[i].is_connected THEN "sleep_short" ELSE "sleep_disc"
                   /\ connects'[i] = connects[i]
                   /\ rd'[i].total_frames = rd[i].total_frames]_vars

C20_Witness ==
    \E i \in Insts : /\ task[i].pc = "sleep_disc" /\ rd[i].is_running /\ ~rd[i].is_connected
                     /\ rd[i].reconnect_attempts = 1 /\ connects[i] = 2 /\ rd[i].opens = 1
                     /\ rd[i].capture = "unopened"

\* what the manager and the bus hold for session s
ViewOf(s) ==
    <<streams[s], stream_tasks[s], frame_queues[s], processing_tasks[s],
      {<<i, rd[i], task[i]>> : i \in {j \in Insts : rd[j].session_id = s}},
      {<<b, qbuf[b], ptask[b]>> : b \in {c \in BusIds : ptask[c].session_id = s}}>>

\* this step is a step of session a: a start_stream or stop_stream call for a returned,
\* raised or suspended, or a reader or capture task of a moved (its loop ran, failed,
\* was cancelled or was created)
StepOf(a) ==
    \/ ret'.session_id = a
    \/ Len(waiters') > Len(waiters) /\ waiters'[Len(waiters')].session_id = a
    \/ \E i \in Insts : /\ (rd[i].session_id = a \/ rd'[i].session_id = a)
                         /\ (task'[i] # task[i] \/ rd'[i] # rd[i])

\* C19 (SpecTwo): a step of session A (start, stop, a step or the failure of its capture
\* loop) leaves what the manager and the bus hold for any other session B as it was, and
\* leaves the manager running.
C19_SessionsIsolated ==
    [][\A a \in Sessions, b \in Sessions :
          (a # b /\ StepOf(a)) => (ViewOf(b)' = ViewOf(b) /\ is_running' = is_running)]_vars

C19_Witness ==
    \E i \in Insts, j \in Insts :
        /\ rd[i].session_id = "s1" /\ task[i].outcome = "error"
        /\ rd[j].session_id = "s2" /\ task[j].pc = "pace" /\ streams["s2"] = j
        /\ frame_queues["s2"] # 0 /\ qbuf[frame_queues["s2"]] = <<Frame(1, j)>>
        /\ is_running

\* C21: a connected reader has its reconnect counter at zero, and every successful
\* connect (the first one or a reconnect) leaves the counter at zero.
C21_ConnectedResetsAttempts ==
    /\ [](\A i \in Insts : rd[i].is_connected => rd[i].reconnect_attempts = 0)
    /\ [][\A i \in Insts : rd'[i].opens = rd[i].opens + 1 =>
               rd'[i].is_connected /\ rd'[i].reconnect_attempts = 0]_vars

\* a reader that is connected again after a reconnect attempt
C21_Witness ==
    \E i \in Insts : rd[i].is_connected /\ rd[i].opens = 2 /\ connects[i] >= 3

\* C22: stop() of a reader is idempotent: from every reader state one stop() leaves
\* the reader not running, not connected and without a handle, a second stop()
\* changes nothing, and read_frame after stop() returns no frame and starts no
\* reconnect attempt (the reader is left exactly as stop() left it).
C22_ReaderStopIdempotent ==
    \A i \in Insts :
        rd[i].session_id # "none" =>
            LET r == reader_stop(rd[i]) IN
            /\ ~r.is_running /\ ~r.is_connected /\ r.capture = "none"
            /\ reader_stop(r) = r
            /\ is_running => stream_loop_top(r) = [rd |-> r, pc |-> "sleep_disc"]

\* a running, connected reader with a handle and reconnect attempts left, in a
\* running manager: stop() changes it, and only stop() keeps it from reconnecting
C22_Witness ==
    \E i \in Insts :
        /\ is_running /\ rd[i].is_running /\ rd[i].is_connected /\ rd[i].capture = "open"
        /\ rd[i].total_frames >= 1 /\ reconnect_starts(rd[i])
        /\ reader_stop(rd[i]) # rd[i]

\* C30: total_frames of a reader grows by exactly 1 on each successful read and is
\* left unchanged by every read_frame that returns no frame and by connect,
\* reconnect and stop.
C30_TotalFramesCountsReads ==
    /\ [][\A i \in Insts :
              (rd[i].session_id # "none" /\ rd'[i].session_id # "none") =>
                  rd'[i].total_frames =
                      IF task[i].pc = "reading" /\ task'[i].pc = "pace"
                      THEN rd[i].total_frames + 1 ELSE rd[i].total_frames]_vars
    /\ [](\A i \in Insts :
              /\ read_end(rd[i], TRUE).total_frames = rd[i].total_frames + 1
              /\ read_end(rd[i], FALSE).total_frames = rd[i].total_frames
              /\ \A opened \in BOOLEAN :
                     connect_end(rd[i], opened).total_frames = rd[i].total_frames
              /\ reconnect_begin(rd[i]).total_frames = rd[i].total_frames
              /\ reader_stop(rd[i]).total_frames = rd[i].total_frames)

\* a reader that counted frames before and after a failed read and a reconnect
C30_Witness ==
    \E i \in Insts : rd[i].total_frames >= 2 /\ rd[i].opens = 2 /\ task[i].pc = "pace"

\* C25: start_stream returns without waiting for the source: when it returns, the
\* session is registered with the reader built from the descriptor and with one
\* capture task, that task is the only capture task of the session and has not run
\* yet, and the reader has not been started and has made no connect attempt.
C25_StartReturnsBeforeConnect ==
    (ret.kind = "start" /\ ret.result = "ok") =>
        LET s == ret.session_id
            i == ret.inst IN
        /\ streams[s] = i /\ stream_tasks[s] = i
        /\ rd[i] = NewReader(s, ret.cfg)
        /\ ~rd[i].is_running /\ ~rd[i].is_connected
        /\ rd[i].capture = "none" /\ rd[i].opens = 0 /\ rd[i].total_frames = 0
        /\ task[i] = [NoTask EXCEPT !.pc = "init"]
        /\ LoopsOf(s) = {i}

\* start_stream returned for a network camera of a session that was not registered
C25_Witness ==
    /\ ret.kind = "start" /\ ret.result = "ok" /\ ~ret.replaced
    /\ ret.cfg = CfgRtsp
    /\ task[ret.inst].pc = "init" /\ streams[ret.session_id] = ret.inst

\* C23: with the capture loops of several sessions interleaved, total_frames_processed
\* equals the number of frames the loops have published so far, and no step makes
\* it smaller, a stop_stream or a restart of a session included.
C23_TotalCountsPublished ==
    /\ [](total_frames_processed = published)
    /\ [][total_frames_processed' >= total_frames_processed]_vars

\* two sessions have published, and the first one has been stopped since
C23_Witness ==
    /\ total_frames_processed = 2 /\ published = 2
    /\ \A s \in Sessions : frame_queues[s] # 0
    /\ streams["s1"] = 0 /\ streams["s2"] # 0

\* C24: while the capture loop of a session A waits for a connect or a read of its
\* source, which may never return, the control operations on another session B are
\* not held up: stop_stream(B) and start_stream(B, d) can be run, a stop_stream(B)
\* that has to wait waits for the task of B only and goes on once that task has
\* ended, and get_stream_metrics(B) answers from the registry entry of B.
C24_ControlNotBlockedByRead ==
    \A i \in Insts :
        (is_running /\ task[i].pc \in InExecutor /\ ~task[i].cancel) =>
            \A b \in Sessions \ {rd[i].session_id} :
                /\ Len(waiters) < lim.calls => ENABLED stop_stream(b)
                /\ (Len(waiters) < lim.calls /\ Free(Mgr) # {}) =>
                       ENABLED start_stream(b, CfgWebcam)
                /\ get_stream_metrics(b).found = (streams[b] # 0)
                /\ \A k \in 1..Len(waiters) :
                       (waiters[k].session_id = b /\ waiters[k].on # i) =>
                           \/ ENABLED stream_loop_cancelled(waiters[k].on)
                           \/ ENABLED resume(k)

\* session s2 is inside a read while stop_stream of s1 has just returned
C24_Witness ==
    \E i \in Insts :
        /\ rd[i].session_id = "s2" /\ task[i].pc = "reading" /\ ~task[i].cancel
        /\ ret.kind = "stop" /\ ret.result = "ok" /\ ret.session_id = "s1"

\* C26: get_stream_metrics(id) returns none when id is not registered and otherwise
\* the total_frames and dropped_frames the reader of id has at the moment of the
\* call; get_active_stream_count returns the number of registered sessions; neither
\* changes the manager, a reader or the bus (a step that returns metrics is a step
\* that sets ret to a metrics answer).
C26_MetricsAreLiveAndPure ==
    [][(ret'.kind = "metrics" /\ ret' # ret) =>
          LET s == ret'.session_id IN
          /\ ret'.metrics.found = (streams[s] # 0)
          /\ streams[s] = 0 => ret'.metrics = NoMetrics /\ ret'.result = "none"
          /\ streams[s] # 0 =>
                 /\ ret'.metrics.total_frames = rd[streams[s]].total_frames
                 /\ ret'.metrics.dropped_frames = rd[streams[s]].dropped_frames
          /\ ret'.count = Cardinality({x \in Sessions : streams[x] # 0})
          /\ UNCHANGED <<mgrVars, busVars>>]_vars

\* the metrics of a session whose reader has counted two frames were returned
C26_Witness ==
    /\ ret.kind = "metrics" /\ ret.metrics.found /\ ret.metrics.total_frames = 2
    /\ ret.count = 1

\* C28: after exactly 10 ticks that are 100 ms apart, get_fps is about 10 frames per
\* second: it differs from 10 by no more than a tenth of it.
C28_TenTicksGiveTenFps ==
    (ticks.n = 10 /\ ticks.regular) =>
        /\ get_fps(frame_times) >= TargetFps - FpsTolerance
        /\ get_fps(frame_times) <= TargetFps + FpsTolerance

\* C29: the bus has a task entry for exactly the sessions that have a queue, and at
\* most one distribution task of a session is alive, under any interleaving of
\* publish and unsubscribe calls for the session.
C29_OneTaskPerQueue ==
    \A s \in Sessions :
        /\ (processing_tasks[s] # 0) = (frame_queues[s] # 0)
        /\ Cardinality(ProcsOf(s)) <= 1

\* C27: a distribution task never waits forever: once FrameBus.stop has cleared the
\* running flag, or once the task has been cancelled, the task ends, also when its
\* queue is empty and no frame arrives (the wait for a frame ends by its timeout).
C27_IdleTaskTerminates ==
    \A b \in BusIds :
        (/\ ptask[b].pc \notin {"none", "done"}
         /\ ptask[b].cancel \/ (~bus_running /\ bstop.st # "none"))
            ~> (ptask[b].pc = "done")

\* FrameBus.stop awaits one task while the task of the other session is idle: its
\* queue is empty, it has not been cancelled yet, and the running flag is cleared
C27_Witness ==
    \E b \in BusIds :
        /\ bstop.st = "waiting" /\ bstop.on # b /\ ~bus_running
        /\ ptask[b].pc = "waiting" /\ ~ptask[b].cancel
        /\ qbuf[ptask[b].queue] = <<>>

\* C31: after StreamManager.stop() has returned, with no start_stream call
\* overlapping it, the registry and the table of capture tasks are empty, every
\* reader is stopped, and the bus has no queue, no task entry and no live
\* distribution task.
C31_StopLeavesNothing ==
    mstop.st = "returned" =>
        /\ \A s \in Sessions :
               /\ streams[s] = 0 /\ stream_tasks[s] = 0
               /\ frame_queues[s] = 0 /\ processing_tasks[s] = 0
        /\ \A i \in Insts :
               /\ ~rd[i].is_running /\ ~rd[i].is_connected /\ rd[i].capture = "none"
        /\ \A b \in BusIds : ptask[b].pc \in {"none", "done"}

\* C33: a stop_stream call that overlapped another stop_stream call of its session
\* returns normally or raises the unknown-session error (ValueError), nothing else,
\* and once no call is suspended after it the session is in neither table.
C33_OverlappingStopsEnd ==
    ret.kind = "stop" =>
        /\ ret.result \in {"ok", "ValueError"}
        /\ waiters = <<>> => (streams[ret.session_id] = 0 /\ stream_tasks[ret.session_id] = 0)

\* C38: a start_stream call for a registered id stops the registered session before it
\* looks at the new descriptor: when it returns normally the descriptor was valid,
\* and when the descriptor is rejected it raises ValueError with the old reader
\* stopped and the id in neither table (calls one after the other).
C38_RejectedReplaceRemoves ==
    (ret.kind = "start" /\ ret.replaced) =>
        /\ ret.result \in {"ok", "ValueError"}
        /\ ret.result = "ok" => ValidConfig(ret.cfg)
        /\ ret.result = "ValueError" =>
              /\ ret.old_stopped
              /\ streams[ret.session_id] = 0 /\ stream_tasks[ret.session_id] = 0

\* a replacing start_stream was rejected after it had waited for the old capture task
C38_Witness ==
    /\ ret.kind = "start" /\ ret.replaced /\ ret.result = "ValueError"
    /\ ret.old_stopped
    /\ streams[ret.session_id] = 0

\* C34: a registered session whose capture task ended with an internal error keeps
\* its reader and its finished task in the two tables, is counted by
\* get_active_stream_count and is answered by get_stream_metrics, over every step
\* that is not the return of a stop_stream or start_stream call for the session.
C34_FailedSessionStays ==
    [][\A s \in Sessions :
         LET i == streams'[s] IN
         /\ (/\ streams[s] # 0 /\ task[streams[s]].pc # "done"
             /\ task'[streams[s]].outcome = "error") =>
               streams'[s] = streams[s] /\ stream_tasks'[s] = stream_tasks[s]
         /\ (i # 0 /\ stream_tasks'[s] = i /\ task'[i].outcome = "error") =>
               /\ task'[i].pc = "done"
               /\ Cardinality({x \in Sessions : streams'[x] # 0}) >= 1
               /\ rd'[i].session_id = s
         /\ (/\ streams[s] # 0 /\ stream_tasks[s] = streams[s]
             /\ task[streams[s]].outcome = "error"
             /\ ~(ret'.kind \in {"start", "stop"} /\ ret'.session_id = s)) =>
               /\ streams'[s] = streams[s] /\ stream_tasks'[s] = stream_tasks[s]
               /\ task'[streams[s]] = task[streams[s]]
               /\ rd'[streams[s]].total_frames = rd[streams[s]].total_frames]_vars

\* the initial connect of a registered session failed: its loop has ended, the
\* session is counted and its metrics are found
C34_Witness ==
    \E s \in Sessions :
        /\ streams[s] # 0 /\ stream_tasks[s] = streams[s]
        /\ task[streams[s]].pc = "done" /\ task[streams[s]].outcome = "error"
        /\ rd[streams[s]].opens = 0 /\ ~rd[streams[s]].is_connected
        /\ get_active_stream_count = 1
        /\ get_stream_metrics(s).found

\* C37: the reader is out of attempts only when max_reconnect_attempts reconnects in
\* a row have failed with no successful connect between them; a successful connect
\* gives the whole budget back, so the number of reconnect attempts of a reader over
\* its life is not bounded by the budget.
C37_BudgetIsPerOutage ==
    /\ [](\A i \in Insts :
            /\ streak[i] <= rd[i].max_reconnect_attempts
            /\ Exhausted(i) => streak[i] = rd[i].max_reconnect_attempts
            /\ (task[i].pc \in Sleeping /\ ~rd[i].is_connected /\ rd[i].opens > 0) =>
                  streak[i] = rd[i].reconnect_attempts)
    /\ [][\A i \in Insts : rd'[i].opens = rd[i].opens + 1 =>
               streak'[i] = 0 /\ ~Failed(rd'[i]) /\ reconnect_starts(rd'[i])]_vars

\* a reader that has made more reconnect attempts than its budget and is not out of
\* attempts: one failed, one succeeded, and after the next failed read a third runs
C37_Witness ==
    \E i \in Insts :
        /\ connects[i] = RdReconnect + 2 /\ rd[i].opens = 2
        /\ task[i].pc = "reconnecting" /\ rd[i].reconnect_attempts = 1
        /\ streak[i] = 0

\* C36: while a session has its queue and the distribution task of the queue has
\* ended, no step starts a task for the session or hands a frame of it to the sink;
\* a publish puts its frame into the queue as the newest one, dropping the oldest
\* when the queue holds max_queue_size frames, so the queue never holds more.
C36_DeadTaskNotReplaced ==
    [][\A s \in Sessions :
         LET b == frame_queues[s] IN
         (b # 0 /\ processing_tasks[s] = b /\ ptask[b].pc = "done") =>
            /\ frame_queues'[s] = b /\ processing_tasks'[s] = b
            /\ ptask'[b] = ptask[b]
            /\ \A c \in BusIds : ptask'[c].session_id = s => ptask'[c].pc = "done"
            /\ sink'[s] = sink[s]
            /\ Len(qbuf'[b]) <= max_queue_size
            /\ qbuf'[b] # qbuf[b] =>
                  /\ hist'[b].n = hist[b].n + 1
                  /\ qbuf'[b] = queue_publish(qbuf[b], qbuf'[b][Len(qbuf'[b])])
                  /\ Len(qbuf[b]) = max_queue_size => qbuf'[b][1] = qbuf[b][2]]_vars

\* the task of a session ended with an error while the bus runs; three frames
\* published after that have left the newest two in the queue, none was delivered
C36_Witness ==
    \E s \in Sessions :
        LET b == frame_queues[s] IN
        /\ b # 0 /\ bus_running
        /\ ptask[b].pc = "done" /\ ptask[b].outcome = "error"
        /\ hist[b].n = 4 /\ hist[b].gets = 1
        /\ qbuf[b] = <<Frame(3, 0), Frame(4, 0)>>
        /\ sink[s].sent = {}

\* C35: a publish for a session without a queue makes a new queue that holds the
\* published frame alone and a new distribution task for it, with the bus running
\* or not; and no task takes a frame for the sink out of a queue that unsubscribe
\* has removed from the table, so the frames left in it are not delivered.
C35_FreshQueueOldFramesLost ==
    /\ [][\A s \in lim.sessions :
             (/\ lim.sessions = {s} /\ frame_queues[s] = 0
              /\ \E b \in BusIds : hist'[b].n = hist[b].n + 1) =>
                LET b == nBus + 1 IN
                /\ nBus' = b /\ ptask[b].pc = "none" /\ hist[b].n = 0
                /\ frame_queues'[s] = b /\ processing_tasks'[s] = b
                /\ ptask'[b].pc = "init" /\ ptask'[b].session_id = s
                /\ Len(qbuf'[b]) = 1]_vars
    /\ [][\A b \in BusIds :
             (b <= nBus /\ \A s \in Sessions : frame_queues[s] # b) =>
                \A c \in BusIds :
                    ~(ptask[c].queue = b /\ ptask[c].pc = "waiting" /\ ptask'[c].pc = "sending")]_vars

\* C39: between the steps of the coroutines (where control is yielded) a session_id
\* is a key of the registry exactly when it is a key of the table of capture tasks,
\* with start_stream and stop_stream calls that overlap in any way.
C39_TablesSameKeys ==
    \A s \in Sessions : (streams[s] # 0) <=> (stream_tasks[s] # 0)

\* a call is suspended on a task that is done, and a call that ran in between has
\* registered the session again with a new reader and task
C39_Witness ==
    \E s \in Sessions :
        /\ waiters # <<>> /\ waiters[1].session_id = s
        /\ task[waiters[1].on].pc = "done"
        /\ streams[s] # 0 /\ stream_tasks[s] = streams[s]
        /\ stream_tasks[s] # waiters[1].on

\* C40: at every moment a session_id has a status exactly when it has a
\* configuration, and an update_session_status call for an id without a
\* configuration changes none of the tables.
C40_StatusFollowsConfig ==
    /\ [](\A s \in Sessions : (session_status[s] # "none") <=> (sessions[s] # 0))
    /\ [][(api_ret'.kind = "update" /\ sessions[api_ret'.session_id] = 0) =>
            /\ api_ret'.result = "unknown"
            /\ UNCHANGED <<sessions, session_status, websockets, total_sessions_created>>]_vars

\* an update for a deleted session has returned, after another session was created,
\* updated and is still there
C40_Witness ==
    /\ api_ret = [kind |-> "update", session_id |-> "s1", result |-> "unknown"]
    /\ sessions = [s \in Sessions |-> IF s = "s2" THEN 1 ELSE 0]
    /\ session_status = [s \in Sessions |-> IF s = "s2" THEN "connected" ELSE "none"]
    /\ total_sessions_created = 2

\* C32: a delete_session call returns False, with no table changed, for an id
\* without a configuration; for any other id it returns True and leaves the id
\* without configuration, status and websocket, also when the websocket handler
\* unregistered the websocket while the call waited for the close.
C32_DeleteRemovesAll ==
    [][api_ret'.kind = "delete" =>
          LET s == api_ret'.session_id IN
          /\ api_ret'.result \in {"True", "False"}
          /\ api_ret'.result = "False" =>
                /\ sessions[s] = 0
                /\ UNCHANGED <<sessions, session_status, websockets>>
          /\ sessions[s] # 0 => api_ret'.result = "True"
          /\ api_ret'.result = "True" =>
                /\ sessions'[s] = 0 /\ session_status'[s] = "none"
                /\ websockets'[s] = 0]_vars

====
